---- MODULE Spec2Model ----
(***************************************************************************)
(* FridgeChef: the preference store and the personalised recommendation    *)
(* engine.  Two modules hold the logic: RecommendationEngine               *)
(* (src/services/RecommendationEngine.ts, "engine") and                    *)
(* RecommendationService (src/unnamed/part_000, "service").  Both persist  *)
(* through AsyncStorage under the same two keys, userPreferences and       *)
(* cookingHistory, and each keeps its own in-memory defaultPreferences.    *)
(*                                                                         *)
(* Strings are TLA+ strings; includes and toLowerCase are computed on      *)
(* them character by character; Array.prototype.filter is SelectSeq.  A    *)
(* value that may be absent (a storage key, an optional argument) is a     *)
(* sequence of length 0 or 1; an object field that may be absent is absent *)
(* from the record's DOMAIN.  A score is held as the exact rational value  *)
(* of the sum; where the order of two scores depends on how the doubles of *)
(* the code round, the doubles are computed.                               *)
(***************************************************************************)
EXTENDS Integers, Sequences, FiniteSets, TLC

VARIABLES prefsStore, historyStore, defaultPreferences, now, input, op, lastRank,
          calls

vars == <<prefsStore, historyStore, defaultPreferences, now, input, op, lastRank,
          calls>>

\* calls holds the asynchronous call of each caller.  A caller awaits its
\* call before it makes the next; the JavaScript thread runs a call until it
\* awaits a storage operation, so a call is one step for each storage
\* operation it awaits, and the steps of the calls of different callers
\* interleave.  pc is the await at which the call is suspended, "idle"
\* before the caller's first call and "done" when its call has returned.
\* op is the log of the call that returned in the last step.
CallIds == {"a", "b"}

NoCalls == [c \in CallIds |-> [pc |-> "idle"]]

inFlight(c) == calls[c].pc \notin {"idle", "done"}

\* the log after a step in which no call returned
NoReturn == [name |-> "none", raised |-> FALSE]

\* the callers other than c whose call has returned
returnedOthers(c) == {d \in CallIds \ {c} : calls[d].pc = "done"}

(***************************************************************************)
(* Bounds of the model                                                     *)
(***************************************************************************)
MaxClock == 3
MaxRecipes == 2
MaxCurrent == 2

(***************************************************************************)
(* Strings                                                                 *)
(***************************************************************************)
\* the characters String.prototype.toLowerCase changes and, at the same
\* position, what it changes each to: the 26 ASCII capitals and the 30
\* capitals of Latin-1 (a string of the model holds characters up to U+00FF,
\* and these are all the cased capitals among them)
UpperCase == "ABCDEFGHIJKLMNOPQRSTUVWXYZÀÁÂÃÄÅÆÇÈÉÊËÌÍÎÏÐÑÒÓÔÕÖØÙÚÛÜÝÞ"
LowerCase == "abcdefghijklmnopqrstuvwxyzàáâãäåæçèéêëìíîïðñòóôõöøùúûüýþ"

\* the lower-case character of each character of UpperCase
UpperToLower ==
  [c \in {SubSeq(UpperCase, i, i) : i \in 1..Len(UpperCase)} |->
     LET i == CHOOSE k \in 1..Len(UpperCase) : SubSeq(UpperCase, k, k) = c
     IN SubSeq(LowerCase, i, i)]

RECURSIVE toLowerCase(_)
toLowerCase(s) ==
  IF Len(s) = 0 THEN ""
  ELSE IF Len(s) = 1
  THEN (IF s \in DOMAIN UpperToLower THEN UpperToLower[s] ELSE s)
  ELSE LET half == Len(s) \div 2
       IN toLowerCase(SubSeq(s, 1, half)) \o toLowerCase(SubSeq(s, half + 1, Len(s)))

\* s.includes(t): t occurs in s as a contiguous substring
includes(s, t) ==
  \E i \in 1..(Len(s) - Len(t) + 1) : SubSeq(s, i, i + Len(t) - 1) = t

\* array.includes(x): exact element membership
arrayIncludes(arr, x) == \E i \in 1..Len(arr) : arr[i] = x

Modules == {"engine", "service"}

(***************************************************************************)
(* Preference store                                                        *)
(***************************************************************************)
InitialDefaultPreferences ==
  [dietaryRestrictions |-> <<>>,
   favoriteIngredients |-> <<>>,
   dislikedIngredients |-> <<>>,
   cuisinePreferences |-> <<>>,
   maxCookingTime |-> 60,
   skillLevel |-> "beginner"]

\* the reverse precedence: { ...preferences, ...current }
spreadCurrentWins(current, preferences) ==
  [f \in DOMAIN current \cup DOMAIN preferences |->
     IF f \in DOMAIN current THEN current[f] ELSE preferences[f]]

\* { ...current, ...preferences }
spread(current, preferences) ==
  [f \in DOMAIN current \cup DOMAIN preferences |->
     IF f \in DOMAIN preferences THEN preferences[f] ELSE current[f]]

\* what getUserPreferences of module m returns: the parsed record when one is
\* persisted and the read succeeds, else the module's defaultPreferences object
readPreferences(m, store, defaults, readFails) ==
  IF readFails \/ store = <<>> THEN defaults[m] ELSE store[1]

\* whether that return value is the defaultPreferences object itself
returnsDefaultObject(store, readFails) == readFails \/ store = <<>>

\* what getCookingHistory returns
readHistory(store, readFails) ==
  IF readFails \/ store = <<>> THEN <<>> ELSE store[1]

\* the item cleared before it is written, so that a rejected write leaves nothing
persistClearedFirst(store, value, writeFails) ==
  IF writeFails THEN <<>> ELSE <<value>>

\* await AsyncStorage.setItem(key, JSON.stringify(value)) inside try/catch:
\* the item after the call; a rejected write is logged and leaves the item
persist(store, value, writeFails) ==
  IF writeFails THEN store ELSE <<value>>

\* getUserPreferences awaits getItem once
getUserPreferences(c, m, readFails) ==
  /\ ~inFlight(c)
  /\ calls' = [calls EXCEPT ![c] = [pc |-> "done", name |-> "getUserPreferences"]]
  /\ op' = [name |-> "getUserPreferences", module |-> m, readFails |-> readFails,
            raised |-> FALSE,
            result |-> readPreferences(m, prefsStore, defaultPreferences, readFails)]
  /\ UNCHANGED <<prefsStore, historyStore, defaultPreferences, now, input, lastRank>>

\* the record merged at the write from what is persisted at that moment
writtenRecordMergedOnWrite(call) ==
  spread(readPreferences(call.module, prefsStore, defaultPreferences, FALSE),
         call.preferences)

\* the record a suspended call hands to setItem: JSON.stringify(updated) is
\* evaluated before the await, from the current read before it
writtenRecord(call) == call.updated

\* updateUserPreferences up to its await of setItem: getItem (inside
\* getUserPreferences) has completed or rejected and
\* updated = { ...current, ...preferences } is computed
updateUserPreferencesRead(c, m, preferences, readFails) ==
  LET current == readPreferences(m, prefsStore, defaultPreferences, readFails)
  IN /\ ~inFlight(c)
     /\ calls' = [calls EXCEPT ![c] =
                    [pc |-> "setItem", name |-> "updateUserPreferences",
                     module |-> m, preferences |-> preferences,
                     readFails |-> readFails, current |-> current,
                     updated |-> spread(current, preferences),
                     readAfter |-> returnedOthers(c)]]
     /\ op' = NoReturn
     /\ UNCHANGED <<prefsStore, historyStore, defaultPreferences, now, input, lastRank>>

\* setItem completes (or rejects and is logged) and the call returns
updateUserPreferencesWrite(c, writeFails) ==
  /\ calls[c].pc = "setItem"
  /\ calls[c].name = "updateUserPreferences"
  /\ prefsStore' = persist(prefsStore, writtenRecord(calls[c]), writeFails)
  /\ calls' = [calls EXCEPT ![c] =
                 [pc |-> "done", name |-> calls[c].name, module |-> calls[c].module,
                  preferences |-> calls[c].preferences,
                  readFails |-> calls[c].readFails, current |-> calls[c].current,
                  updated |-> calls[c].updated, readAfter |-> calls[c].readAfter,
                  writeFails |-> writeFails, writtenAfter |-> returnedOthers(c)]]
  /\ op' = [name |-> "updateUserPreferences", module |-> calls[c].module,
            preferences |-> calls[c].preferences, current |-> calls[c].current,
            readFails |-> calls[c].readFails, writeFails |-> writeFails,
            raised |-> FALSE]
  /\ UNCHANGED <<historyStore, defaultPreferences, now, input, lastRank>>

\* getCookingHistory awaits getItem once
getCookingHistory(c, readFails) ==
  /\ ~inFlight(c)
  /\ calls' = [calls EXCEPT ![c] = [pc |-> "done", name |-> "getCookingHistory"]]
  /\ op' = [name |-> "getCookingHistory", readFails |-> readFails,
            raised |-> FALSE,
            result |-> readHistory(historyStore, readFails)]
  /\ UNCHANGED <<prefsStore, historyStore, defaultPreferences, now, input, lastRank>>

\* the entry as JSON.stringify persists it: undefined rating and notes are dropped
newEntry(recipeId, cookedAt, rating, notes) ==
  [f \in {"recipeId", "cookedAt"}
         \cup (IF rating = <<>> THEN {} ELSE {"rating"})
         \cup (IF notes = <<>> THEN {} ELSE {"notes"}) |->
     CASE f = "recipeId" -> recipeId
       [] f = "cookedAt" -> cookedAt
       [] f = "rating" -> rating[1]
       [] f = "notes" -> notes[1]]

\* the new entry put last, after the entries of the other recipes
updatedHistoryNewestLast(history, entry) ==
  LET other(h) == h.recipeId # entry.recipeId
  IN SelectSeq(history, other) \o <<entry>>

\* the new entry put first without the old entries of the recipe taken out
updatedHistoryKeepingOld(history, entry) == <<entry>> \o history

\* [newEntry, ...history.filter(h => h.recipeId !== recipeId)]
updatedHistory(history, entry) ==
  LET other(h) == h.recipeId # entry.recipeId
  IN <<entry>> \o SelectSeq(history, other)

hasEntryOf(history, recipeId) ==
  \E i \in 1..Len(history) : history[i].recipeId = recipeId

\* addToCookingHistory up to its await of setItem: getItem (inside
\* getCookingHistory) has completed or rejected, the entry is stamped and
\* updatedHistory is computed.  cookedAt is the clock reading at that moment;
\* the clock does not run backwards and stops at MaxClock.  wasPresent logs
\* whether the persisted history held an entry of the recipe then.
addToCookingHistoryRead(c, recipeId, rating, notes, cookedAt, readFails) ==
  LET history == readHistory(historyStore, readFails)
      entry == newEntry(recipeId, cookedAt, rating, notes)
  IN /\ ~inFlight(c)
     /\ cookedAt \in now..MaxClock
     /\ cookedAt <= now + 1
     /\ now' = cookedAt
     /\ calls' = [calls EXCEPT ![c] =
                    [pc |-> "setItem", name |-> "addToCookingHistory",
                     recipeId |-> recipeId, rating |-> rating, notes |-> notes,
                     cookedAt |-> cookedAt, readFails |-> readFails,
                     history |-> history,
                     updatedHistory |-> updatedHistory(history, entry),
                     wasPresent |-> hasEntryOf(readHistory(historyStore, FALSE),
                                               recipeId),
                     readAfter |-> returnedOthers(c)]]
     /\ op' = NoReturn
     /\ UNCHANGED <<prefsStore, historyStore, defaultPreferences, input, lastRank>>

\* setItem completes (or rejects and is logged) and the call returns
addToCookingHistoryWrite(c, writeFails) ==
  /\ calls[c].pc = "setItem"
  /\ calls[c].name = "addToCookingHistory"
  /\ historyStore' = persist(historyStore, calls[c].updatedHistory, writeFails)
  /\ calls' = [calls EXCEPT ![c] =
                 [pc |-> "done", name |-> calls[c].name,
                  recipeId |-> calls[c].recipeId, readFails |-> calls[c].readFails,
                  history |-> calls[c].history,
                  updatedHistory |-> calls[c].updatedHistory,
                  readAfter |-> calls[c].readAfter,
                  writeFails |-> writeFails, writtenAfter |-> returnedOthers(c)]]
  /\ op' = [name |-> "addToCookingHistory", recipeId |-> calls[c].recipeId,
            rating |-> calls[c].rating, notes |-> calls[c].notes,
            cookedAt |-> calls[c].cookedAt,
            updatedHistory |-> calls[c].updatedHistory,
            readFails |-> calls[c].readFails, writeFails |-> writeFails,
            wasPresent |-> calls[c].wasPresent,
            raised |-> FALSE]
  /\ UNCHANGED <<prefsStore, defaultPreferences, now, input, lastRank>>

\* no name (compared exactly) is in both lists
disjointLists(preferences) ==
  \A i \in 1..Len(preferences.favoriteIngredients) :
     ~arrayIncludes(preferences.dislikedIngredients, preferences.favoriteIngredients[i])

\* the name added to its list without being taken out of the opposite list
changedPreferencesKeepingOpposite(preferences, ingredient, liked) ==
  LET pushed(arr) == IF arrayIncludes(arr, ingredient) THEN arr
                     ELSE Append(arr, ingredient)
  IN IF liked
     THEN [preferences EXCEPT !.favoriteIngredients = pushed(@)]
     ELSE [preferences EXCEPT !.dislikedIngredients = pushed(@)]

\* the preferences object after the if/else of updateIngredientPreference
changedPreferences(preferences, ingredient, liked) ==
  LET notIt(ing) == ing # ingredient
      pushed(arr) == IF arrayIncludes(arr, ingredient) THEN arr
                     ELSE Append(arr, ingredient)
  IN IF liked
     THEN [preferences EXCEPT
             !.favoriteIngredients = pushed(@),
             !.dislikedIngredients = SelectSeq(@, notIt)]
     ELSE [preferences EXCEPT
             !.dislikedIngredients = pushed(@),
             !.favoriteIngredients = SelectSeq(@, notIt)]

\* the preferences object a suspended call holds: the defaultPreferences
\* object of its module as it is now when getUserPreferences returned that
\* object, else the call's own copy parsed from the store
heldPreferences(call) ==
  IF call.byReference THEN defaultPreferences[call.module] ELSE call.preferences

\* updateIngredientPreference up to its call of updateUserPreferences: getItem
\* (inside getUserPreferences) has completed or rejected and the object is
\* changed in place; when it is the service's defaultPreferences, that object
\* now holds the change.  wasDisjoint logs whether the persisted record and
\* the service's defaultPreferences each had disjoint lists at that moment,
\* and wasOpposite whether the name was in the opposite list of the
\* preferences read.
updateIngredientPreferenceRead(c, ingredient, liked, readFails) ==
  LET isDefault == returnsDefaultObject(prefsStore, readFails)
      preferences == readPreferences("service", prefsStore, defaultPreferences, readFails)
      changed == changedPreferences(preferences, ingredient, liked)
  IN /\ ~inFlight(c)
     /\ defaultPreferences' = IF isDefault
                              THEN [defaultPreferences EXCEPT !["service"] = changed]
                              ELSE defaultPreferences
     /\ calls' = [calls EXCEPT ![c] =
                    [pc |-> "updateUserPreferences",
                     name |-> "updateIngredientPreference", module |-> "service",
                     ingredient |-> ingredient, liked |-> liked,
                     readFails |-> readFails, byReference |-> isDefault,
                     preferences |-> changed,
                     wasDisjoint |->
                       /\ disjointLists(defaultPreferences["service"])
                       /\ prefsStore # <<>> => disjointLists(prefsStore[1]),
                     wasOpposite |->
                       arrayIncludes(IF liked THEN preferences.dislikedIngredients
                                     ELSE preferences.favoriteIngredients,
                                     ingredient)]]
     /\ op' = NoReturn
     /\ UNCHANGED <<prefsStore, historyStore, now, input, lastRank>>

\* await this.updateUserPreferences(preferences) up to its await of setItem:
\* its getItem has completed or rejected and the object the call holds, as it
\* is now, is spread over the current read
updateIngredientPreferenceMerge(c, readFails2) ==
  LET call == calls[c]
      current == readPreferences("service", prefsStore, defaultPreferences, readFails2)
      preferences == heldPreferences(call)
  IN /\ call.pc = "updateUserPreferences"
     /\ calls' = [calls EXCEPT ![c] =
                    [pc |-> "setItem", name |-> call.name, module |-> call.module,
                     ingredient |-> call.ingredient, liked |-> call.liked,
                     readFails |-> call.readFails, readFails2 |-> readFails2,
                     preferences |-> preferences, current |-> current,
                     updated |-> spread(current, preferences),
                     wasDisjoint |-> call.wasDisjoint,
                     wasOpposite |-> call.wasOpposite]]
     /\ op' = NoReturn
     /\ UNCHANGED <<prefsStore, historyStore, defaultPreferences, now, input, lastRank>>

\* setItem completes (or rejects and is logged); updateUserPreferences and
\* then updateIngredientPreference return
updateIngredientPreferenceWrite(c, writeFails) ==
  LET call == calls[c]
  IN /\ call.pc = "setItem"
     /\ call.name = "updateIngredientPreference"
     /\ prefsStore' = persist(prefsStore, writtenRecord(call), writeFails)
     /\ calls' = [calls EXCEPT ![c] =
                    [pc |-> "done", name |-> call.name, module |-> call.module]]
     /\ op' = [name |-> "updateIngredientPreference",
               ingredient |-> call.ingredient, liked |-> call.liked,
               readFails |-> call.readFails, readFails2 |-> call.readFails2,
               writeFails |-> writeFails, raised |-> FALSE,
               wasDisjoint |-> call.wasDisjoint, wasOpposite |-> call.wasOpposite]
     /\ UNCHANGED <<historyStore, defaultPreferences, now, input, lastRank>>

(***************************************************************************)
(* Exact rationals: <<n, d>> in lowest terms with d > 0.                   *)
(***************************************************************************)
RECURSIVE gcd(_, _)
gcd(a, b) == IF b = 0 THEN a ELSE gcd(b, a % b)

fraction(n, d) ==
  LET g == gcd(IF n < 0 THEN -n ELSE n, d)
  IN <<n \div g, d \div g>>

whole(n) == <<n, 1>>

plus(a, b) == fraction(a[1] * b[2] + b[1] * a[2], a[2] * b[2])

minus(a, b) == fraction(a[1] * b[2] - b[1] * a[2], a[2] * b[2])

times(a, k) == fraction(a[1] * k, a[2])

less(a, b) == a[1] * b[2] < b[1] * a[2]

atMost(a, b) == a[1] * b[2] <= b[1] * a[2]

(***************************************************************************)
(* JavaScript numbers.  A number of the code is an IEEE 754 double: a sign *)
(* and a 53-bit significand times a power of two, and every operation      *)
(* returns the double nearest to the exact result, ties to the even        *)
(* significand.  A double is held as [neg, sig, exp] with the value        *)
(* sig * 2^exp, where sig is a natural number of exactly 53 bits (or 0).   *)
(* A natural number too wide for an integer of the model is the sequence   *)
(* of its digits in base 2^15, most significant first.  The operands of    *)
(* the code are integers, so no operation overflows or underflows.         *)
(***************************************************************************)
Precision == 53
LimbBits == 15
Limb == 32768

\* the element of a one-element set: only({ e : v \in {x} }) is e with v
\* standing for the value of x, which is computed once
only(S) == CHOOSE v \in S : TRUE

\* the digits of a natural number
RECURSIVE wide(_)
wide(n) == IF n = 0 THEN <<>> ELSE Append(wide(n \div Limb), n % Limb)

\* the digits without their leading zeros
trimmed(a) ==
  LET nonZero == {i \in 1..Len(a) : a[i] # 0}
  IN IF nonZero = {} THEN <<>>
     ELSE SubSeq(a, CHOOSE i \in nonZero : \A j \in nonZero : i <= j, Len(a))

\* a + b + carry
RECURSIVE widePlus(_, _, _)
widePlus(a, b, carry) ==
  IF Len(a) = 0 /\ Len(b) = 0 THEN (IF carry = 0 THEN <<>> ELSE <<carry>>)
  ELSE LET x == IF Len(a) = 0 THEN 0 ELSE a[Len(a)]
           y == IF Len(b) = 0 THEN 0 ELSE b[Len(b)]
           s == x + y + carry
       IN Append(widePlus(SubSeq(a, 1, Len(a) - 1), SubSeq(b, 1, Len(b) - 1),
                          s \div Limb),
                 s % Limb)

\* a - b - borrow, for a >= b + borrow
RECURSIVE wideMinus(_, _, _)
wideMinus(a, b, borrow) ==
  IF Len(a) = 0 THEN <<>>
  ELSE LET y == IF Len(b) = 0 THEN 0 ELSE b[Len(b)]
           d == a[Len(a)] - y - borrow
       IN Append(wideMinus(SubSeq(a, 1, Len(a) - 1), SubSeq(b, 1, Len(b) - 1),
                           IF d < 0 THEN 1 ELSE 0),
                 IF d < 0 THEN d + Limb ELSE d)

\* a * k + carry for one digit k
RECURSIVE wideTimesDigit(_, _, _)
wideTimesDigit(a, k, carry) ==
  IF Len(a) = 0 THEN (IF carry = 0 THEN <<>> ELSE <<carry>>)
  ELSE LET p == a[Len(a)] * k + carry
       IN Append(wideTimesDigit(SubSeq(a, 1, Len(a) - 1), k, p \div Limb), p % Limb)

\* a * n for a natural number n
RECURSIVE wideTimes(_, _)
wideTimes(a, n) ==
  IF n = 0 THEN <<>>
  ELSE widePlus(wideTimesDigit(a, n % Limb, 0),
                wideTimes(a, n \div Limb) \o <<0>>, 0)

\* the quotient of a by one digit d, given what is left of the digits before
RECURSIVE wideDividedFrom(_, _, _)
wideDividedFrom(a, d, left) ==
  IF Len(a) = 0 THEN <<>>
  ELSE LET x == left * Limb + Head(a)
       IN <<x \div d>> \o wideDividedFrom(Tail(a), d, x % d)

\* the floor of a / d
wideDivided(a, d) == trimmed(wideDividedFrom(a, d, 0))

\* the number of binary digits of a (without leading zeros)
bitLength(a) ==
  IF Len(a) = 0 THEN 0
  ELSE (Len(a) - 1) * LimbBits
         + CHOOSE k \in 1..LimbBits : 2^(k - 1) <= a[1] /\ a[1] < 2^k

\* a * 2^s
shiftedLeft(a, s) ==
  IF Len(a) = 0 THEN <<>>
  ELSE trimmed(wideTimesDigit(a, 2^(s % LimbBits), 0))
         \o [i \in 1..(s \div LimbBits) |-> 0]

\* the floor of a / 2^s
shiftedRight(a, s) ==
  IF s \div LimbBits >= Len(a) THEN <<>>
  ELSE wideDivided(SubSeq(a, 1, Len(a) - (s \div LimbBits)), 2^(s % LimbBits))

isOdd(a) == Len(a) > 0 /\ a[Len(a)] % 2 = 1

\* -1, 0 or 1 as a is below, equal to or above b (neither has leading zeros)
wideCompare(a, b) ==
  IF Len(a) # Len(b) THEN (IF Len(a) < Len(b) THEN -1 ELSE 1)
  ELSE LET differ == {i \in 1..Len(a) : a[i] # b[i]}
       IN IF differ = {} THEN 0
          ELSE LET i == CHOOSE k \in differ : \A j \in differ : k <= j
               IN IF a[i] < b[i] THEN -1 ELSE 1

NumberZero == [neg |-> FALSE, sig |-> <<>>, exp |-> 0]

\* the double nearest to magnitude * 2^exp, ties to even; inexact says that
\* the exact value lies above magnitude * 2^exp by less than 2^exp
roundToDouble(neg, magnitude, exp, inexact) ==
  only({ (LET L == bitLength(a)
          IN IF L = 0 THEN NumberZero
             ELSE IF L <= Precision
             THEN [neg |-> neg, sig |-> shiftedLeft(a, Precision - L),
                   exp |-> exp - (Precision - L)]
             ELSE only({ (LET more == inexact \/ shiftedLeft(withHalf, L - Precision - 1) # a
                              up == isOdd(withHalf) /\ (more \/ isOdd(kept))
                          IN only({ (LET over == bitLength(m) > Precision
                                     IN [neg |-> neg,
                                         sig |-> IF over THEN shiftedRight(m, 1) ELSE m,
                                         exp |-> exp + (L - Precision)
                                                   + (IF over THEN 1 ELSE 0)])
                                    : m \in {IF up THEN trimmed(widePlus(kept, <<1>>, 0))
                                             ELSE kept} }))
                         : withHalf \in {shiftedRight(a, L - Precision - 1)},
                           kept \in {shiftedRight(a, L - Precision)} }))
         : a \in {trimmed(magnitude)} })

\* the double of an integer
numberOf(n) == roundToDouble(n < 0, wide(IF n < 0 THEN -n ELSE n), 0, FALSE)

\* x * n for a double x and an integer n
numberTimes(x, n) ==
  only({ roundToDouble(v.neg # (n < 0), wideTimes(v.sig, IF n < 0 THEN -n ELSE n),
                       v.exp, FALSE)
         : v \in {x} })

QuotientBits == 75

\* a / b for natural numbers a and b, 0 < b < 2^15
numberDivide(a, b) ==
  only({ only({ roundToDouble(FALSE, q, -QuotientBits,
                              trimmed(wideTimesDigit(q, b, 0)) # scaled)
                : q \in {wideDivided(scaled, b)} })
         : scaled \in {shiftedLeft(wide(a), QuotientBits)} })

\* x + y
numberPlus(x, y) ==
  IF x.sig = <<>> THEN y
  ELSE IF y.sig = <<>> THEN x
  ELSE LET e == IF x.exp < y.exp THEN x.exp ELSE y.exp
       IN only({ (LET c == wideCompare(mx, my)
                  IN IF x.neg = y.neg
                     THEN roundToDouble(x.neg, widePlus(mx, my, 0), e, FALSE)
                     ELSE IF c = 0 THEN NumberZero
                     ELSE IF c > 0
                     THEN roundToDouble(x.neg, wideMinus(mx, my, 0), e, FALSE)
                     ELSE roundToDouble(y.neg, wideMinus(my, mx, 0), e, FALSE))
                 : mx \in {shiftedLeft(x.sig, x.exp - e)},
                   my \in {shiftedLeft(y.sig, y.exp - e)} })

numberNegated(x) == IF x.sig = <<>> THEN x ELSE [x EXCEPT !.neg = ~x.neg]

\* the sign of x - y: -1, 0 or 1
numberCompare(x, y) ==
  only({ (IF d.sig = <<>> THEN 0 ELSE IF d.neg THEN -1 ELSE 1)
         : d \in { only({ numberPlus(v, numberNegated(w)) : v \in {x}, w \in {y} }) } })

(***************************************************************************)
(* Scoring.  A recipe is a loosely typed record: any field may be absent.  *)
(* What the code adds to the score is held as an addend [number, times]:   *)
(* the product of the number (a literal such as 0.3, or the quotient of    *)
(* two integers) by an integer.  The exact value of the addend is the      *)
(* rational number * times, and the double the code computes is the double *)
(* of the quotient multiplied by the integer.                              *)
(***************************************************************************)
addend(number, k) == [number |-> number, times |-> k]

\* an integer added as it is
integerAddend(n) == addend(whole(1), n)

exactOf(a) == times(a.number, a.times)

doubleOf(a) ==
  only({ numberTimes(q, a.times) : q \in {numberDivide(a.number[1], a.number[2])} })

\* score += a for every addend in turn, starting from let score = 0
RECURSIVE exactSum(_)
exactSum(addends) ==
  IF Len(addends) = 0 THEN whole(0)
  ELSE plus(exactSum(SubSeq(addends, 1, Len(addends) - 1)),
            exactOf(addends[Len(addends)]))

RECURSIVE doubleSum(_)
doubleSum(addends) ==
  IF Len(addends) = 0 THEN NumberZero
  ELSE only({ numberPlus(score, a)
              : score \in {doubleSum(SubSeq(addends, 1, Len(addends) - 1))},
                a \in {doubleOf(addends[Len(addends)])} })

has(obj, f) == f \in DOMAIN obj

\* v || d for a numeric field: absent and 0 are both falsy
orDefault(obj, f, d) == IF has(obj, f) /\ obj[f] # 0 THEN obj[f] ELSE d

Digit == <<"0", "1", "2", "3", "4", "5", "6", "7", "8", "9">>

\* Number.prototype.toString for a non-negative integer
RECURSIVE toString(_)
toString(n) ==
  IF n < 10 THEN Digit[n + 1] ELSE toString(n \div 10) \o Digit[(n % 10) + 1]

\* recipe.extendedIngredients?.map(ing => ing.name.toLowerCase()) || []
recipeIngredientsOf(recipe) ==
  IF has(recipe, "extendedIngredients")
  THEN [i \in 1..Len(recipe.extendedIngredients) |->
          toLowerCase(recipe.extendedIngredients[i].name)]
  ELSE <<>>

\* the map throws a TypeError when an ingredient has no name
ingredientsRaise(recipe) ==
  /\ has(recipe, "extendedIngredients")
  /\ \E i \in 1..Len(recipe.extendedIngredients) :
        ~has(recipe.extendedIngredients[i], "name")

\* the availability with an ingredient counted only when it contains an
\* available name
calculateIngredientAvailabilityOneWay(recipeIngredients, availableIngredients) ==
  IF Len(recipeIngredients) = 0 THEN whole(0)
  ELSE LET isAvailable(recipeIng) ==
             \E j \in 1..Len(availableIngredients) :
                includes(recipeIng, toLowerCase(availableIngredients[j]))
           availableCount == Len(SelectSeq(recipeIngredients, isAvailable))
       IN fraction(availableCount, Len(recipeIngredients))

\* availableCount / recipeIngredients.length
calculateIngredientAvailability(recipeIngredients, availableIngredients) ==
  IF Len(recipeIngredients) = 0 THEN whole(0)
  ELSE LET isAvailable(recipeIng) ==
             \E j \in 1..Len(availableIngredients) :
                \/ includes(toLowerCase(availableIngredients[j]), recipeIng)
                \/ includes(recipeIng, toLowerCase(availableIngredients[j]))
           availableCount == Len(SelectSeq(recipeIngredients, isAvailable))
       IN fraction(availableCount, Len(recipeIngredients))

\* the bonus with an ingredient counted once for every favorite it contains
calculateFavoriteIngredientsBonusPerName(recipeIngredients, favoriteIngredients) ==
  IF Len(favoriteIngredients) = 0 THEN 0
  ELSE Cardinality({<<i, j>> \in (1..Len(recipeIngredients)) \X (1..Len(favoriteIngredients)) :
                      includes(recipeIngredients[i], toLowerCase(favoriteIngredients[j]))})
         * 8

\* the bonus with the favorites matched in both directions, as the
\* available ingredients are
calculateFavoriteIngredientsBonusSymmetric(recipeIngredients, favoriteIngredients) ==
  IF Len(favoriteIngredients) = 0 THEN 0
  ELSE LET isFavorite(recipeIng) ==
             \E j \in 1..Len(favoriteIngredients) :
                \/ includes(recipeIng, toLowerCase(favoriteIngredients[j]))
                \/ includes(toLowerCase(favoriteIngredients[j]), recipeIng)
       IN Len(SelectSeq(recipeIngredients, isFavorite)) * 8

calculateFavoriteIngredientsBonus(recipeIngredients, favoriteIngredients) ==
  IF Len(favoriteIngredients) = 0 THEN 0
  ELSE LET isFavorite(recipeIng) ==
             \E j \in 1..Len(favoriteIngredients) :
                includes(recipeIng, toLowerCase(favoriteIngredients[j]))
       IN Len(SelectSeq(recipeIngredients, isFavorite)) * 8

\* the penalty with the sign of a bonus: subtracting it adds 15 for each
\* disliked ingredient
calculateDislikedIngredientsPenaltyAdded(recipeIngredients, dislikedIngredients) ==
  IF Len(dislikedIngredients) = 0 THEN 0
  ELSE LET isDisliked(recipeIng) ==
             \E j \in 1..Len(dislikedIngredients) :
                includes(recipeIng, toLowerCase(dislikedIngredients[j]))
       IN -(Len(SelectSeq(recipeIngredients, isDisliked)) * 15)

\* the penalty with a weight of 10 for each disliked ingredient
calculateDislikedIngredientsPenaltyOfTen(recipeIngredients, dislikedIngredients) ==
  IF Len(dislikedIngredients) = 0 THEN 0
  ELSE LET isDisliked(recipeIng) ==
             \E j \in 1..Len(dislikedIngredients) :
                includes(recipeIng, toLowerCase(dislikedIngredients[j]))
       IN Len(SelectSeq(recipeIngredients, isDisliked)) * 10

calculateDislikedIngredientsPenalty(recipeIngredients, dislikedIngredients) ==
  IF Len(dislikedIngredients) = 0 THEN 0
  ELSE LET isDisliked(recipeIng) ==
             \E j \in 1..Len(dislikedIngredients) :
                includes(recipeIng, toLowerCase(dislikedIngredients[j]))
       IN Len(SelectSeq(recipeIngredients, isDisliked)) * 15

\* the compliance test that fails only on a tag that is present and false
checkDietaryComplianceAbsentPasses(recipe, dietaryRestrictions) ==
  LET tagFalse(tag) == has(recipe, tag) /\ ~recipe[tag]
  IN /\ ~(arrayIncludes(dietaryRestrictions, "vegetarian") /\ tagFalse("vegetarian"))
     /\ ~(arrayIncludes(dietaryRestrictions, "vegan") /\ tagFalse("vegan"))
     /\ ~(arrayIncludes(dietaryRestrictions, "glutenFree") /\ tagFalse("glutenFree"))

\* !recipe.tag : an absent tag is falsy
tagTrue(recipe, tag) == has(recipe, tag) /\ recipe[tag]

checkDietaryCompliance(recipe, dietaryRestrictions) ==
  /\ ~(arrayIncludes(dietaryRestrictions, "vegetarian") /\ ~tagTrue(recipe, "vegetarian"))
  /\ ~(arrayIncludes(dietaryRestrictions, "vegan") /\ ~tagTrue(recipe, "vegan"))
  /\ ~(arrayIncludes(dietaryRestrictions, "glutenFree") /\ ~tagTrue(recipe, "glutenFree"))

\* the complexity estimate with the cooking time counted in whole minutes
estimateRecipeComplexityWholeMinutes(recipe) ==
  LET cookingTime == orDefault(recipe, "readyInMinutes", 30)
      instructionLength == IF has(recipe, "instructions")
                           THEN Len(recipe.instructions) ELSE 0
      ingredientCount == IF has(recipe, "extendedIngredients")
                         THEN Len(recipe.extendedIngredients) ELSE 0
      complexityScore == cookingTime * 100 + instructionLength + ingredientCount * 100
  IN IF complexityScore < 1500 THEN "easy"
     ELSE IF complexityScore < 3000 THEN "medium"
     ELSE "hard"

\* cookingTime / 10 + instructionLength / 100 + ingredientCount, compared in
\* hundredths with 15 and 30
estimateRecipeComplexity(recipe) ==
  LET cookingTime == orDefault(recipe, "readyInMinutes", 30)
      instructionLength == IF has(recipe, "instructions")
                           THEN Len(recipe.instructions) ELSE 0
      ingredientCount == IF has(recipe, "extendedIngredients")
                         THEN Len(recipe.extendedIngredients) ELSE 0
      complexityScore == cookingTime * 10 + instructionLength + ingredientCount * 100
  IN IF complexityScore < 1500 THEN "easy"
     ELSE IF complexityScore < 3000 THEN "medium"
     ELSE "hard"

calculateSkillLevelBonus(recipe, skillLevel) ==
  LET complexity == estimateRecipeComplexity(recipe)
  IN CASE skillLevel = "beginner" ->
            (IF complexity = "easy" THEN 10 ELSE IF complexity = "medium" THEN 0 ELSE -10)
       [] skillLevel = "intermediate" ->
            (IF complexity = "medium" THEN 10 ELSE 5)
       [] skillLevel = "advanced" ->
            (IF complexity = "hard" THEN 15 ELSE 8)
       [] OTHER -> 0

\* the bonus taken from the newest entry of the history, whatever its recipe
historyBonusNewestEntry(recipe, history) ==
  IF Len(history) = 0 THEN 0
  ELSE LET historyEntry == history[1]
       IN IF has(historyEntry, "rating") /\ historyEntry.rating # 0
          THEN historyEntry.rating * 5
          ELSE 0

\* history.find(h => h.recipeId === recipe.id.toString()), then rating * 5
\* when the entry has a truthy rating; the callback, and with it
\* recipe.id.toString(), runs only when the history has an entry
historyBonus(recipe, history) ==
  LET hits == {i \in 1..Len(history) : history[i].recipeId = toString(recipe.id)}
  IN IF hits = {} THEN 0
     ELSE LET historyEntry == history[CHOOSE i \in hits : \A j \in hits : i <= j]
          IN IF has(historyEntry, "rating") /\ historyEntry.rating # 0
             THEN historyEntry.rating * 5
             ELSE 0

\* the clamp without its Math.max(0, ...)
clampUpperOnly(score) ==
  IF less(whole(100), score) THEN whole(100) ELSE score

\* Math.max(0, Math.min(100, score))
clamp(score) ==
  IF less(whole(100), score) THEN whole(100)
  ELSE IF less(score, whole(0)) THEN whole(0)
  ELSE score

\* the same on the double of the code
clampNumber(score) ==
  only({ (IF numberCompare(s, hundred) > 0 THEN hundred
          ELSE IF numberCompare(s, NumberZero) < 0 THEN NumberZero
          ELSE s)
         : s \in {score}, hundred \in {numberOf(100)} })

\* the cooking time preference: cookingTime = recipe.readyInMinutes || 60,
\* then score += 15 and a further score += 10, or score -= 10
timeFit(recipe, preferences) ==
  LET cookingTime == orDefault(recipe, "readyInMinutes", 60)
  IN IF cookingTime <= preferences.maxCookingTime
     THEN (IF cookingTime <= 30 THEN <<15, 10>> ELSE <<15>>)
     ELSE <<-10>>

\* what calculateRecipeScore adds to the score, in the order in which it
\* adds it; the service adds the history, dietary and skill terms
scoreAddends(m, recipe, preferences, history, availableIngredients) ==
  LET recipeIngredients == recipeIngredientsOf(recipe)
      base == << addend(fraction(3, 10), orDefault(recipe, "healthScore", 50)),
                 addend(fraction(2, 10), orDefault(recipe, "spoonacularScore", 50)) >>
      availabilityScore ==
        calculateIngredientAvailability(recipeIngredients, availableIngredients)
      time == timeFit(recipe, preferences)
      favoriteBonus ==
        calculateFavoriteIngredientsBonus(recipeIngredients, preferences.favoriteIngredients)
      dislikedPenalty ==
        calculateDislikedIngredientsPenalty(recipeIngredients, preferences.dislikedIngredients)
      common == base
                  \o << addend(availabilityScore, 20) >>
                  \o [i \in 1..Len(time) |-> integerAddend(time[i])]
                  \o << integerAddend(favoriteBonus), integerAddend(-dislikedPenalty) >>
  IN IF m = "engine" THEN common
     ELSE common
            \o << integerAddend(historyBonus(recipe, history)),
                  integerAddend(IF checkDietaryCompliance(recipe, preferences.dietaryRestrictions)
                                THEN 10 ELSE 0),
                  integerAddend(calculateSkillLevelBonus(recipe, preferences.skillLevel)) >>

\* the sum before the clamp
rawScore(m, recipe, preferences, history, availableIngredients) ==
  exactSum(scoreAddends(m, recipe, preferences, history, availableIngredients))

calculateRecipeScore(m, recipe, preferences, history, availableIngredients) ==
  clamp(rawScore(m, recipe, preferences, history, availableIngredients))

\* the double calculateRecipeScore returns
calculateRecipeScoreNumber(m, recipe, preferences, history, availableIngredients) ==
  clampNumber(doubleSum(scoreAddends(m, recipe, preferences, history,
                                      availableIngredients)))

\* calculateRecipeScore throws a TypeError: an ingredient without a name, or
\* (service only) a recipe without an id looked up in a non-empty history
scoreRaises(m, recipe, history) ==
  \/ ingredientsRaise(recipe)
  \/ m = "service" /\ ~has(recipe, "id") /\ Len(history) > 0

\* { ...recipe, personalScore: score }
scored(recipe, score) == ("personalScore" :> score) @@ recipe

\* the scored list returned without the sort
unsorted(arr, sums) == arr

\* the comparator (a, b) => b.personalScore - a.personalScore is negative: a
\* sorts before b.  sumA and sumB hold the addends of the two scores, whose
\* clamped double sums are the numbers the code subtracts.  A double sum is
\* within 1/1000 of its exact value (at most 11 roundings of numbers below
\* 2^33), so two scores whose exact values differ by 1 or more compare as
\* their exact values do; the doubles decide the others.
comparesHigher(a, sumA, b, sumB) ==
  IF atMost(whole(1), minus(a.personalScore, b.personalScore)) THEN TRUE
  ELSE IF atMost(whole(1), minus(b.personalScore, a.personalScore)) THEN FALSE
  ELSE /\ sumA # sumB
       /\ \E x \in {clampNumber(doubleSum(sumA))}, y \in {clampNumber(doubleSum(sumB))} :
             numberCompare(x, y) > 0

\* Array.prototype.sort((a, b) => b.personalScore - a.personalScore): a stable
\* sort, highest personalScore first.  sums[i] holds the addends of
\* arr[i].personalScore.
sortByPersonalScore(arr, sums) ==
  LET place == [i \in 1..Len(arr) |->
                  1 + Cardinality({j \in 1..Len(arr) :
                        /\ j # i
                        /\ \/ comparesHigher(arr[j], sums[j], arr[i], sums[i])
                           \/ /\ j < i
                              /\ ~comparesHigher(arr[i], sums[i], arr[j], sums[j])})]
  IN [k \in 1..Len(arr) |-> arr[CHOOSE i \in 1..Len(arr) : place[i] = k]]

\* the ranking with the recipes of score 0 left out
scoredAndSortedNonZero(m, recipes, preferences, history, availableIngredients) ==
  LET positive(r) == r.personalScore # whole(0)
  IN only({ SelectSeq(sortByPersonalScore(scoredRecipes, sums), positive)
            : scoredRecipes \in
                { [i \in 1..Len(recipes) |->
                     scored(recipes[i],
                            calculateRecipeScore(m, recipes[i], preferences[i], history,
                                                 availableIngredients))] },
              sums \in
                { [i \in 1..Len(recipes) |->
                     scoreAddends(m, recipes[i], preferences[i], history,
                                  availableIngredients)] } })

\* recipes.map(recipe => ({ ...recipe, personalScore })).sort(...), where
\* preferences[i] is the preferences object as it is when recipe i is scored
scoredAndSorted(m, recipes, preferences, history, availableIngredients) ==
  only({ sortByPersonalScore(scoredRecipes, sums)
         : scoredRecipes \in
             { [i \in 1..Len(recipes) |->
                  scored(recipes[i],
                         calculateRecipeScore(m, recipes[i], preferences[i], history,
                                              availableIngredients))] },
           sums \in
             { [i \in 1..Len(recipes) |->
                  scoreAddends(m, recipes[i], preferences[i], history,
                               availableIngredients)] } })

\* the value getPersonalizedRecommendations resolves to when it scores every
\* recipe with one preferences value
rankedRecipes(m, recipes, preferences, history, availableIngredients) ==
  scoredAndSorted(m, recipes, [i \in 1..Len(recipes) |-> preferences], history,
                  availableIngredients)

\* the ranking done in place: the caller's array holds the scored recipes in
\* ranked order
recipesRankedInPlace(recipes, ranked) == ranked

\* the caller's recipes array after a call that returned ranked: recipes.map
\* builds a new array of new objects and the sort reorders that array
recipesAfterRanking(recipes, ranked) == recipes

\* the preferences with which recipe i is scored when they are read again
\* from the store for every recipe after the first
preferencesReadAgain(call, i) ==
  IF i = 1 THEN call.preferences
  ELSE readPreferences(call.module, prefsStore, defaultPreferences, FALSE)

\* the preferences with which recipe i is scored: the one object the call
\* holds, for every i
preferencesAt(call, i) == heldPreferences(call)

\* recipes.map and the sort run without a further await and the call returns
\* (or rejects, when scoring a recipe throws): its record and the log of the
\* call.  preferencesRead is what getUserPreferences returned,
\* preferencesHeld that object when the recipes are scored.
rankReturns(c, call, history, historyReadFails) ==
  LET raised == \E i \in 1..Len(call.recipes) :
                   scoreRaises(call.module, call.recipes[i], history)
      ranked == scoredAndSorted(call.module, call.recipes,
                                [i \in 1..Len(call.recipes) |-> preferencesAt(call, i)],
                                history, call.availableIngredients)
  IN /\ calls' = [calls EXCEPT ![c] =
                    [pc |-> "done", name |-> call.name, module |-> call.module,
                     preferencesChanged |->
                       call.preferences # readPreferences(call.module, prefsStore,
                                                          defaultPreferences, FALSE),
                     historyChanged |-> call.historyAtRead # historyStore]]
     /\ op' = [name |-> "getPersonalizedRecommendations", module |-> call.module,
               availableIngredients |-> call.availableIngredients,
               recipes |-> call.recipes, readFails |-> call.readFails,
               historyReadFails |-> historyReadFails, raised |-> raised,
               preferencesRead |-> call.preferences,
               preferencesHeld |-> preferencesAt(call, 1),
               history |-> history,
               result |-> IF raised THEN <<>> ELSE ranked]
     /\ input' = IF raised THEN input
                 ELSE [input EXCEPT !.recipes = recipesAfterRanking(call.recipes, ranked)]

\* getPersonalizedRecommendations up to its second await: getItem (inside
\* getUserPreferences) has completed or rejected; the engine goes on to score
\* and returns, the service awaits getCookingHistory
rankReadPreferences(c, m, availableIngredients, recipes, readFails) ==
  LET call == [pc |-> "getCookingHistory", name |-> "getPersonalizedRecommendations",
               module |-> m, availableIngredients |-> availableIngredients,
               recipes |-> recipes, readFails |-> readFails,
               preferences |-> readPreferences(m, prefsStore, defaultPreferences,
                                               readFails),
               byReference |-> returnsDefaultObject(prefsStore, readFails),
               historyAtRead |-> historyStore]
  IN /\ ~inFlight(c)
     /\ IF m = "engine"
        THEN rankReturns(c, call, <<>>, FALSE)
        ELSE /\ calls' = [calls EXCEPT ![c] = call]
             /\ op' = NoReturn
             /\ UNCHANGED input
     /\ UNCHANGED <<prefsStore, historyStore, defaultPreferences, now>>

\* getItem (inside getCookingHistory) has completed or rejected; the service
\* scores every recipe and returns
rankReadHistory(c, historyReadFails) ==
  /\ calls[c].pc = "getCookingHistory"
  /\ calls[c].name = "getPersonalizedRecommendations"
  /\ rankReturns(c, calls[c], readHistory(historyStore, historyReadFails),
                 historyReadFails)
  /\ UNCHANGED <<prefsStore, historyStore, defaultPreferences, now>>

(***************************************************************************)
(* Ingredient suggestions.  A JavaScript Set keeps insertion order and     *)
(* ignores the add of a value it holds, so Array.from of a Set is the      *)
(* sequence of the values added, each at the place of its first add.       *)
(***************************************************************************)
MaxSuggestions == 8

\* Array.from(set) after items.forEach(x => set.add(x)) on an empty Set
setOf(items) ==
  LET firstAdd(i) == \A j \in 1..(i - 1) : items[j] # items[i]
      kept == SelectSeq([i \in 1..Len(items) |-> i], firstAdd)
  IN [k \in 1..Len(kept) |-> items[kept[k]]]

\* the table of each module, in the key order of the object literal
complementaryMap(m) ==
  IF m = "engine"
  THEN << [key |-> "tomato", values |-> <<"basil", "mozzarella", "garlic", "olive oil">>],
          [key |-> "chicken", values |-> <<"rosemary", "thyme", "lemon", "garlic">>],
          [key |-> "pasta", values |-> <<"parmesan", "basil", "garlic", "olive oil">>],
          [key |-> "rice", values |-> <<"soy sauce", "ginger", "scallions">>],
          [key |-> "beef", values |-> <<"onion", "garlic", "mushrooms">>],
          [key |-> "salmon", values |-> <<"dill", "lemon", "capers">>],
          [key |-> "potato", values |-> <<"rosemary", "thyme", "garlic", "butter">>] >>
  ELSE << [key |-> "tomato", values |-> <<"basil", "mozzarella", "garlic", "olive oil">>],
          [key |-> "chicken", values |-> <<"rosemary", "thyme", "lemon", "garlic">>],
          [key |-> "pasta", values |-> <<"parmesan", "basil", "garlic", "olive oil">>],
          [key |-> "rice", values |-> <<"soy sauce", "ginger", "scallions", "sesame oil">>],
          [key |-> "beef",
           values |-> <<"onion", "garlic", "worcestershire sauce", "mushrooms">>],
          [key |-> "salmon", values |-> <<"dill", "lemon", "capers", "asparagus">>],
          [key |-> "potato", values |-> <<"rosemary", "thyme", "garlic", "butter">>],
          [key |-> "avocado", values |-> <<"lime", "cilantro", "jalapeño", "red onion">>] >>

\* the complements of every key of the table, whether or not the key is
\* found in lowerIngredient
RECURSIVE complementsOfEveryKey(_, _)
complementsOfEveryKey(lowerIngredient, table) ==
  IF Len(table) = 0 THEN <<>>
  ELSE Head(table).values \o complementsOfEveryKey(lowerIngredient, Tail(table))

\* Object.keys(complementaryMap).forEach(key => ...): the complements of the
\* keys found in lowerIngredient, in the order in which they are added
RECURSIVE complementsOf(_, _)
complementsOf(lowerIngredient, table) ==
  IF Len(table) = 0 THEN <<>>
  ELSE (IF includes(lowerIngredient, Head(table).key) THEN Head(table).values ELSE <<>>)
         \o complementsOf(lowerIngredient, Tail(table))

\* ingredients.forEach(ingredient => ...): the adds of every ingredient in turn
RECURSIVE complementsOfAll(_, _)
complementsOfAll(ingredients, table) ==
  IF Len(ingredients) = 0 THEN <<>>
  ELSE complementsOf(toLowerCase(Head(ingredients)), table)
         \o complementsOfAll(Tail(ingredients), table)

getComplementaryIngredients(m, ingredients) ==
  setOf(complementsOfAll(ingredients, complementaryMap(m)))

\* Array.prototype.slice(0, n)
slice(arr, n) == SubSeq(arr, 1, IF Len(arr) < n THEN Len(arr) ELSE n)

\* the filter with the names compared with currentIngredients as written,
\* without toLowerCase
survivingSuggestionsCaseSensitive(m, currentIngredients, preferences) ==
  LET suggestions ==
        setOf(preferences.favoriteIngredients
                \o getComplementaryIngredients(m, currentIngredients))
      keep(ing) ==
        /\ ~\E i \in 1..Len(currentIngredients) :
               includes(currentIngredients[i], ing)
        /\ ~\E i \in 1..Len(preferences.dislikedIngredients) :
               includes(toLowerCase(preferences.dislikedIngredients[i]), toLowerCase(ing))
  IN SelectSeq(suggestions, keep)

\* Array.from(suggestions).filter(...): favorites, then complements, without
\* the names found in currentIngredients or in dislikedIngredients
survivingSuggestions(m, currentIngredients, preferences) ==
  LET suggestions ==
        setOf(preferences.favoriteIngredients
                \o getComplementaryIngredients(m, currentIngredients))
      keep(ing) ==
        /\ ~\E i \in 1..Len(currentIngredients) :
               includes(toLowerCase(currentIngredients[i]), toLowerCase(ing))
        /\ ~\E i \in 1..Len(preferences.dislikedIngredients) :
               includes(toLowerCase(preferences.dislikedIngredients[i]), toLowerCase(ing))
  IN SelectSeq(suggestions, keep)

\* the suggestions cut to n names before the filter instead of after it
suggestedIngredientsCutFirst(m, currentIngredients, preferences) ==
  LET suggestions ==
        slice(setOf(preferences.favoriteIngredients
                      \o getComplementaryIngredients(m, currentIngredients)),
              MaxSuggestions)
      keep(ing) ==
        /\ ~\E i \in 1..Len(currentIngredients) :
               includes(toLowerCase(currentIngredients[i]), toLowerCase(ing))
        /\ ~\E i \in 1..Len(preferences.dislikedIngredients) :
               includes(toLowerCase(preferences.dislikedIngredients[i]), toLowerCase(ing))
  IN SelectSeq(suggestions, keep)

suggestedIngredients(m, currentIngredients, preferences) ==
  slice(survivingSuggestions(m, currentIngredients, preferences), MaxSuggestions)

\* the filter and the slice run without a further await and the call returns
suggestReturns(c, call) ==
  /\ calls' = [calls EXCEPT ![c] =
                 [pc |-> "done", name |-> call.name, module |-> call.module]]
  /\ op' = [name |-> "getSuggestedIngredients", module |-> call.module,
            currentIngredients |-> call.currentIngredients,
            readFails |-> call.readFails, raised |-> FALSE,
            preferencesRead |-> call.preferences,
            preferencesHeld |-> heldPreferences(call),
            result |-> suggestedIngredients(call.module, call.currentIngredients,
                                            heldPreferences(call))]

\* getSuggestedIngredients up to its second await: getItem (inside
\* getUserPreferences) has completed or rejected; the engine goes on to
\* filter and returns, the service awaits getCookingHistory
suggestReadPreferences(c, m, currentIngredients, readFails) ==
  LET call == [pc |-> "getCookingHistory", name |-> "getSuggestedIngredients",
               module |-> m, currentIngredients |-> currentIngredients,
               readFails |-> readFails,
               preferences |-> readPreferences(m, prefsStore, defaultPreferences,
                                               readFails),
               byReference |-> returnsDefaultObject(prefsStore, readFails)]
  IN /\ ~inFlight(c)
     /\ IF m = "engine"
        THEN suggestReturns(c, call)
        ELSE /\ calls' = [calls EXCEPT ![c] = call]
             /\ op' = NoReturn
     /\ UNCHANGED <<prefsStore, historyStore, defaultPreferences, now, input>>

\* getItem (inside getCookingHistory) has completed or rejected, the history
\* is not used, and the service filters and returns
suggestReadHistory(c, historyReadFails) ==
  /\ calls[c].pc = "getCookingHistory"
  /\ calls[c].name = "getSuggestedIngredients"
  /\ suggestReturns(c, calls[c])
  /\ UNCHANGED <<prefsStore, historyStore, defaultPreferences, now, input>>

(***************************************************************************)
(* Initial state: a fresh installation.  Nothing is persisted and both     *)
(* modules hold their pristine defaultPreferences.                         *)
(***************************************************************************)
NoInput ==
  [availableIngredients |-> <<>>, recipes |-> <<>>, currentIngredients |-> <<>>]

Init ==
  /\ prefsStore = <<>>
  /\ historyStore = <<>>
  /\ defaultPreferences = [m \in Modules |-> InitialDefaultPreferences]
  /\ now = 0
  /\ input = NoInput
  /\ op = [name |-> "init", raised |-> FALSE]
  /\ lastRank = <<>>
  /\ calls = NoCalls

(***************************************************************************)
(* SpecPrefs: the preference operations, called sequentially (each call    *)
(* completes before the next starts).  AsyncStorage.getItem and setItem    *)
(* may each reject.                                                        *)
(***************************************************************************)
PrefNames == {"basil", "Basil"}

PrefPartials ==
  { <<>>,
    [maxCookingTime |-> 20],
    [skillLevel |-> "advanced", maxCookingTime |-> 20],
    [favoriteIngredients |-> <<"tomato">>],
    [dislikedIngredients |-> <<"basil">>, dietaryRestrictions |-> <<"vegetarian">>] }

NextPrefs ==
  \/ \E m \in Modules, rf \in BOOLEAN : getUserPreferences("a", m, rf)
  \/ \E m \in Modules, p \in PrefPartials, rf \in BOOLEAN :
        updateUserPreferencesRead("a", m, p, rf)
  \/ \E wf \in BOOLEAN : updateUserPreferencesWrite("a", wf)
  \/ \E x \in PrefNames, liked \in BOOLEAN, rf \in BOOLEAN :
        updateIngredientPreferenceRead("a", x, liked, rf)
  \/ \E rf2 \in BOOLEAN : updateIngredientPreferenceMerge("a", rf2)
  \/ \E wf \in BOOLEAN : updateIngredientPreferenceWrite("a", wf)

SpecPrefs == Init /\ [][NextPrefs]_vars

(***************************************************************************)
(* SpecHistory: the cooking-history operations, called sequentially.       *)
(***************************************************************************)
HistoryRecipeIds == {"1", "2"}
HistoryRatings == {<<>>, <<3>>, <<5>>}
HistoryNotes == {<<>>, <<"ok">>}

NextHistory ==
  \/ \E rf \in BOOLEAN : getCookingHistory("a", rf)
  \/ \E id \in HistoryRecipeIds, r \in HistoryRatings, n \in HistoryNotes,
         t \in 0..MaxClock, rf \in BOOLEAN :
        addToCookingHistoryRead("a", id, r, n, t, rf)
  \/ \E wf \in BOOLEAN : addToCookingHistoryWrite("a", wf)

SpecHistory == Init /\ [][NextHistory]_vars

(***************************************************************************)
(* Spec: every operation of the preference store, called sequentially.     *)
(***************************************************************************)
AllNames == {"basil"}

AllPartials ==
  { [maxCookingTime |-> 20], [favoriteIngredients |-> <<"tomato">>] }

AllRecipeIds == {"1"}
AllRatings == {<<>>, <<5>>}

Next ==
  \/ \E m \in Modules, rf \in BOOLEAN : getUserPreferences("a", m, rf)
  \/ \E m \in Modules, p \in AllPartials, rf \in BOOLEAN :
        updateUserPreferencesRead("a", m, p, rf)
  \/ \E wf \in BOOLEAN : updateUserPreferencesWrite("a", wf)
  \/ \E x \in AllNames, liked \in BOOLEAN, rf \in BOOLEAN :
        updateIngredientPreferenceRead("a", x, liked, rf)
  \/ \E rf2 \in BOOLEAN : updateIngredientPreferenceMerge("a", rf2)
  \/ \E wf \in BOOLEAN : updateIngredientPreferenceWrite("a", wf)
  \/ \E rf \in BOOLEAN : getCookingHistory("a", rf)
  \/ \E id \in AllRecipeIds, r \in AllRatings, t \in 0..MaxClock, rf \in BOOLEAN :
        addToCookingHistoryRead("a", id, r, <<>>, t, rf)
  \/ \E wf \in BOOLEAN : addToCookingHistoryWrite("a", wf)

Spec == Init /\ [][Next]_vars

(***************************************************************************)
(* SpecRank: getPersonalizedRecommendations of both modules, applied to    *)
(* inputs and to persisted records drawn in the initial state.  Every      *)
(* well-typed preferences record can be persisted by                       *)
(* updateUserPreferences, and every history without a repeated recipeId    *)
(* by addToCookingHistory.                                                 *)
(***************************************************************************)
Scenario ==
  [id |-> 1, healthScore |-> 80, spoonacularScore |-> 60, readyInMinutes |-> 20,
   extendedIngredients |-> <<[name |-> "tomato"], [name |-> "basil"]>>]

Rich ==
  [id |-> 2, healthScore |-> 100, spoonacularScore |-> 100, readyInMinutes |-> 10,
   instructions |-> "Chop. Mix.", vegetarian |-> TRUE, vegan |-> FALSE,
   extendedIngredients |->
     <<[name |-> "Tomatoes, diced"], [name |-> "Basil leaves"], [name |-> "garlic"]>>]

ExtremeLow ==
  [id |-> 12, healthScore |-> -100000, spoonacularScore |-> -7,
   readyInMinutes |-> 100000, instructions |-> "",
   extendedIngredients |-> <<[name |-> "basil"], [name |-> "basil pesto"]>>]

Bare == [id |-> 5]

Zeroes ==
  [id |-> 6, healthScore |-> 0, spoonacularScore |-> 0, readyInMinutes |-> 0,
   extendedIngredients |-> <<>>, glutenFree |-> TRUE]

\* without an id; under a maxCookingTime below 90 the engine sums
\* 82 * 0.3 + 2 * 0.2 - 10 to 14.999999999999996, where Zeroes is 15
NoId == [healthScore |-> 82, spoonacularScore |-> 2, readyInMinutes |-> 90]

NoName == [id |-> 8, extendedIngredients |-> <<[amount |-> 2]>>]

RankRecipes == {Scenario, Rich, ExtremeLow, Zeroes, NoId, NoName}

\* the sequences over S of length at most n
SeqUpTo(S, n) == UNION {[1..k -> S] : k \in 0..n}

RankAvailable == {<<>>, <<"tomato">>, <<"Tomato", "garlic bread">>}

RankPreferences ==
  { spread(InitialDefaultPreferences, p) : p \in
      { [favoriteIngredients |-> <<"tomato", "garlic", "basil">>,
         skillLevel |-> "advanced", dietaryRestrictions |-> <<"vegetarian">>],
        [dislikedIngredients |-> <<"basil">>],
        [dislikedIngredients |-> <<"Tomato", "basil">>, maxCookingTime |-> 15,
         skillLevel |-> "intermediate"],
        [favoriteIngredients |-> <<"Basil", "tomatoes">>,
         dislikedIngredients |-> <<"garlic cloves">>,
         dietaryRestrictions |-> <<"vegan", "glutenFree">>, maxCookingTime |-> 15],
        [skillLevel |-> "advanced", maxCookingTime |-> 100000] } }

RankHistories ==
  { << [recipeId |-> "12", cookedAt |-> 3, rating |-> 5],
       [recipeId |-> "1", cookedAt |-> 3],
       [recipeId |-> "2", cookedAt |-> 2, rating |-> 4, notes |-> "ok"],
       [recipeId |-> "6", cookedAt |-> 1, rating |-> 0] >> }

InitRank ==
  /\ prefsStore \in {<<>>} \cup {<<p>> : p \in RankPreferences}
  /\ historyStore \in {<<>>} \cup {<<h>> : h \in RankHistories}
  /\ defaultPreferences = [m \in Modules |-> InitialDefaultPreferences]
  /\ now = MaxClock
  /\ input \in [availableIngredients : RankAvailable,
                recipes : SeqUpTo(RankRecipes, MaxRecipes),
                currentIngredients : {<<>>}]
  /\ op = [name |-> "init", raised |-> FALSE]
  /\ lastRank = <<>>
  /\ calls = NoCalls

\* one call on the inputs and the records drawn
NextRank ==
  \/ \E m \in Modules, rf \in BOOLEAN :
        /\ calls["a"].pc = "idle"
        /\ rankReadPreferences("a", m, input.availableIngredients, input.recipes, rf)
        /\ UNCHANGED lastRank
  \/ \E rfh \in BOOLEAN :
        /\ rankReadHistory("a", rfh)
        /\ UNCHANGED lastRank

SpecRank == InitRank /\ [][NextRank]_vars

(***************************************************************************)
(* Properties of getPersonalizedRecommendations (SpecRank)                 *)
(***************************************************************************)
RankReturned == op.name = "getPersonalizedRecommendations" /\ ~op.raised

\* the preferences and the history with which the call recorded in op has
\* scored
PreferencesRead == op.preferencesHeld

HistoryRead == op.history

RawScoreOf(recipe) ==
  rawScore(op.module, recipe, PreferencesRead, HistoryRead, op.availableIngredients)

\* C1: every personalScore in a returned ranking is at least 0 and at most
\* 100, in both modules, whatever the magnitudes of the inputs.
C1_ScoreInRange ==
  RankReturned =>
    \A i \in 1..Len(op.result) :
       /\ atMost(whole(0), op.result[i].personalScore)
       /\ atMost(op.result[i].personalScore, whole(100))

\* C1 witness: a returned ranking holding a recipe whose unclamped sum is
\* above 100 and a recipe whose unclamped sum is below 0.
C1_Witness ==
  /\ RankReturned
  /\ \E i \in 1..Len(op.recipes) : less(whole(100), RawScoreOf(op.recipes[i]))
  /\ \E i \in 1..Len(op.recipes) : less(RawScoreOf(op.recipes[i]), whole(0))

\* C2: a returned ranking is in non-increasing personalScore order: every
\* adjacent pair (a, b) has a.personalScore >= b.personalScore.
C2_NonIncreasing ==
  RankReturned =>
    \A i \in 1..(Len(op.result) - 1) :
       atMost(op.result[i + 1].personalScore, op.result[i].personalScore)

\* C2 witness: a returned ranking of two or more recipes whose input order
\* had a lower score before a higher one.
C2_Witness ==
  /\ RankReturned
  /\ Len(op.recipes) >= 2
  /\ \E i \in 1..(Len(op.recipes) - 1) :
        less(clamp(RawScoreOf(op.recipes[i])), clamp(RawScoreOf(op.recipes[i + 1])))

occurrences(arr, x) == Cardinality({i \in 1..Len(arr) : arr[i] = x})

isPermutation(a, b) ==
  /\ Len(a) = Len(b)
  /\ \A i \in 1..Len(a) : occurrences(a, a[i]) = occurrences(b, a[i])

\* the input recipes, each with the score of the preferences and history read
ScoredInput ==
  [i \in 1..Len(op.recipes) |->
     scored(op.recipes[i], clamp(RawScoreOf(op.recipes[i])))]

\* C3: a returned ranking has the length of the input and is a permutation
\* of the input recipes, each carrying the personalScore that
\* calculateRecipeScore gives it under the preferences and history read by
\* the call; no recipe is dropped or duplicated.
C3_ScoresEveryCandidate ==
  RankReturned =>
    /\ Len(op.result) = Len(op.recipes)
    /\ isPermutation(op.result, ScoredInput)

\* C3 witness: a returned ranking of two or more recipes, one of them of
\* score 0, in an order that the sort has changed.
C3_Witness ==
  /\ RankReturned
  /\ Len(op.recipes) >= 2
  /\ op.result # ScoredInput
  /\ \E i \in 1..Len(op.result) : op.result[i].personalScore = whole(0)

(***************************************************************************)
(* SpecTwice: getPersonalizedRecommendations called repeatedly with the    *)
(* same arguments, with updateIngredientPreference calls in between.       *)
(* lastRank records the two most recent calls of                           *)
(* getPersonalizedRecommendations, newest first, each with the persisted   *)
(* records it ran against.                                                 *)
(***************************************************************************)
TwiceNames == {"basil"}

InitTwice ==
  /\ prefsStore \in {<<>>, <<InitialDefaultPreferences>>}
  /\ historyStore = <<>>
  /\ defaultPreferences = [m \in Modules |-> InitialDefaultPreferences]
  /\ now = MaxClock
  /\ input \in [availableIngredients : {<<"tomato">>},
                recipes : {<<Scenario>>, <<Bare, Scenario>>},
                currentIngredients : {<<>>}]
  /\ op = [name |-> "init", raised |-> FALSE]
  /\ lastRank = <<>>
  /\ calls = NoCalls

\* the two most recent calls, the call that returns in this step first
rememberedWith(call) ==
  SubSeq(<<[call |-> call, prefsStore |-> prefsStore,
            historyStore |-> historyStore]>> \o lastRank, 1,
         IF lastRank = <<>> THEN 1 ELSE 2)

NextTwice ==
  \/ \E m \in Modules, rf \in BOOLEAN :
        /\ rankReadPreferences("a", m, input.availableIngredients, input.recipes, rf)
        /\ lastRank' = IF m = "engine" THEN rememberedWith(op') ELSE lastRank
  \/ /\ rankReadHistory("a", FALSE)
     /\ lastRank' = rememberedWith(op')
  \/ \E x \in TwiceNames, liked \in BOOLEAN, rf \in BOOLEAN :
        updateIngredientPreferenceRead("a", x, liked, rf)
  \/ \E rf2 \in BOOLEAN : updateIngredientPreferenceMerge("a", rf2)
  \/ \E wf \in BOOLEAN : updateIngredientPreferenceWrite("a", wf)

SpecTwice == InitTwice /\ [][NextTwice]_vars

\* the two most recent calls were made by the same module with the same
\* arguments, both read the store without a failure, and the persisted
\* records were the same at both calls
SameCallSameStore ==
  /\ Len(lastRank) = 2
  /\ lastRank[1].call.module = lastRank[2].call.module
  /\ lastRank[1].call.recipes = lastRank[2].call.recipes
  /\ lastRank[1].call.availableIngredients = lastRank[2].call.availableIngredients
  /\ \A i \in 1..2 : ~lastRank[i].call.readFails /\ ~lastRank[i].call.historyReadFails
  /\ lastRank[1].prefsStore = lastRank[2].prefsStore
  /\ lastRank[1].historyStore = lastRank[2].historyStore

\* C4: two calls of getPersonalizedRecommendations with identical recipes
\* and available ingredients, with the persisted records not written between
\* them, yield identical output sequences (same order, same scores).
C4_Idempotent ==
  SameCallSameStore =>
    /\ lastRank[1].call.raised = lastRank[2].call.raised
    /\ lastRank[1].call.result = lastRank[2].call.result

\* the same statement for the engine module alone
C4_IdempotentEngine ==
  (SameCallSameStore /\ lastRank[1].call.module = "engine") =>
    /\ lastRank[1].call.raised = lastRank[2].call.raised
    /\ lastRank[1].call.result = lastRank[2].call.result

(***************************************************************************)
(* SpecSuggest: getSuggestedIngredients of both modules, applied to        *)
(* current-ingredient lists and persisted preferences drawn in the initial *)
(* state.                                                                  *)
(***************************************************************************)
SuggestCurrent ==
  {"chicken", "Chicken Tomato rice", "beef", "Garlic", "LEMON", "basil",
   "Avocado", "JALAPEÑO"}

SuggestPreferences ==
  { spread(InitialDefaultPreferences, p) : p \in
      { <<>>,
        [favoriteIngredients |-> <<"garlic", "lemon", "feta", "kale", "corn">>,
         dislikedIngredients |-> <<"Basil", "thyme", "feta">>],
        [favoriteIngredients |-> <<"Lemon", "basil", "tomato">>,
         dislikedIngredients |-> <<"garlic bread">>],
        [favoriteIngredients |->
           <<"kale", "feta", "lime", "tofu", "corn", "miso", "leek", "nori", "dill">>,
         dislikedIngredients |-> <<"onion">>] } }

InitSuggest ==
  /\ prefsStore \in {<<>>} \cup {<<p>> : p \in SuggestPreferences}
  /\ historyStore = <<>>
  /\ defaultPreferences = [m \in Modules |-> InitialDefaultPreferences]
  /\ now = MaxClock
  /\ input \in [availableIngredients : {<<>>},
                recipes : {<<>>},
                currentIngredients : SeqUpTo(SuggestCurrent, MaxCurrent)]
  /\ op = [name |-> "init", raised |-> FALSE]
  /\ lastRank = <<>>
  /\ calls = NoCalls

NextSuggest ==
  \/ \E m \in Modules, rf \in BOOLEAN :
        /\ suggestReadPreferences("a", m, input.currentIngredients, rf)
        /\ UNCHANGED lastRank
  \/ \E rfh \in BOOLEAN :
        /\ suggestReadHistory("a", rfh)
        /\ UNCHANGED lastRank

SpecSuggest == InitSuggest /\ [][NextSuggest]_vars

SuggestReturned == op.name = "getSuggestedIngredients" /\ ~op.raised

\* C7: getSuggestedIngredients returns at most 8 names, none of which is,
\* compared without regard to case, a name in currentIngredients, and none
\* of which is a name in the dislikedIngredients of the preferences read.
C7_SuggestionsExclude ==
  SuggestReturned =>
    /\ Len(op.result) <= 8
    /\ \A i \in 1..Len(op.result) :
          /\ \A j \in 1..Len(op.currentIngredients) :
                toLowerCase(op.currentIngredients[j]) # toLowerCase(op.result[i])
          /\ ~arrayIncludes(PreferencesRead.dislikedIngredients, op.result[i])

\* C7 witness: a call that returned 8 names although more candidates
\* survived, where a favorite was left out for being a current ingredient
\* written in another case and another for being disliked.
C7_Witness ==
  /\ SuggestReturned
  /\ Len(op.result) = 8
  /\ Len(survivingSuggestions(op.module, op.currentIngredients, PreferencesRead)) > 8
  /\ \E i \in 1..Len(PreferencesRead.favoriteIngredients) :
        \E j \in 1..Len(op.currentIngredients) :
           /\ op.currentIngredients[j] # PreferencesRead.favoriteIngredients[i]
           /\ toLowerCase(op.currentIngredients[j])
                = toLowerCase(PreferencesRead.favoriteIngredients[i])
  /\ \E i \in 1..Len(PreferencesRead.favoriteIngredients) :
        arrayIncludes(PreferencesRead.dislikedIngredients,
                      PreferencesRead.favoriteIngredients[i])

(***************************************************************************)
(* Properties of the preference operations (SpecPrefs)                     *)
(***************************************************************************)
\* the preferences as a successful getUserPreferences of the service returns them
CurrentPreferences == readPreferences("service", prefsStore, defaultPreferences, FALSE)

StoreDisjoint ==
  /\ disjointLists(defaultPreferences["service"])
  /\ prefsStore # <<>> => disjointLists(prefsStore[1])

IngredientCallReturned == op.name = "updateIngredientPreference" /\ ~op.raised

\* C5 as stated: after an updateIngredientPreference call that started from
\* disjoint lists, no name is in both favoriteIngredients and
\* dislikedIngredients, and the name of the call is in favorites only when
\* liked was true and in disliked only when liked was false.
C5_Original ==
  (IngredientCallReturned /\ op.wasDisjoint) =>
    /\ StoreDisjoint
    /\ arrayIncludes(CurrentPreferences.favoriteIngredients, op.ingredient) => op.liked
    /\ arrayIncludes(CurrentPreferences.dislikedIngredients, op.ingredient) => ~op.liked

\* C5 amended: after an updateIngredientPreference call that started from
\* disjoint lists, no name is in both lists; and when the write of the call
\* was not dropped, the name of the call is in favoriteIngredients exactly
\* when liked was true and in dislikedIngredients exactly when liked was false.
C5_DisjointAfterUpdate ==
  (IngredientCallReturned /\ op.wasDisjoint) =>
    /\ StoreDisjoint
    /\ ~op.writeFails =>
         /\ arrayIncludes(CurrentPreferences.favoriteIngredients, op.ingredient) <=> op.liked
         /\ arrayIncludes(CurrentPreferences.dislikedIngredients, op.ingredient) <=> ~op.liked

\* C5 witness: a call with liked false whose write succeeded, for a name that
\* was a favorite, now only in dislikedIngredients next to another name.
C5_Witness ==
  /\ IngredientCallReturned
  /\ op.wasDisjoint /\ op.wasOpposite
  /\ ~op.liked /\ ~op.writeFails
  /\ arrayIncludes(CurrentPreferences.dislikedIngredients, op.ingredient)
  /\ Len(CurrentPreferences.favoriteIngredients) > 0

\* C8: whenever no preferences record is persisted or the read fails,
\* getUserPreferences returns, without raising, exactly the documented
\* default, after any sequence of preceding store operations.
C8_DefaultReturned ==
  (op.name = "getUserPreferences" /\ (op.readFails \/ prefsStore = <<>>)) =>
    /\ ~op.raised
    /\ op.result = InitialDefaultPreferences

\* the same statement for the engine module alone
C8_DefaultReturnedEngine ==
  (op.name = "getUserPreferences" /\ op.module = "engine"
     /\ (op.readFails \/ prefsStore = <<>>)) =>
    /\ ~op.raised
    /\ op.result = InitialDefaultPreferences

PreferencesUpdated ==
  /\ op.name = "updateUserPreferences"
  /\ ~op.raised /\ ~op.readFails /\ ~op.writeFails

\* C9: when the read and the write succeed, updateUserPreferences persists a
\* record in which every field named in the partial has exactly the given
\* value and every other field keeps the value of the current preferences.
C9_ShallowMerge ==
  PreferencesUpdated =>
    /\ prefsStore # <<>>
    /\ DOMAIN prefsStore[1] = DOMAIN op.current \cup DOMAIN op.preferences
    /\ \A f \in DOMAIN op.preferences : prefsStore[1][f] = op.preferences[f]
    /\ \A f \in DOMAIN op.current \ DOMAIN op.preferences :
          prefsStore[1][f] = op.current[f]

\* C9 witness: an update that named favoriteIngredients while the current
\* preferences had other favorites and a changed maxCookingTime.
C9_Witness ==
  /\ PreferencesUpdated
  /\ "favoriteIngredients" \in DOMAIN op.preferences
  /\ "maxCookingTime" \notin DOMAIN op.preferences
  /\ Len(op.current.favoriteIngredients) > 0
  /\ op.current.favoriteIngredients # op.preferences.favoriteIngredients
  /\ op.current.maxCookingTime # InitialDefaultPreferences.maxCookingTime

(***************************************************************************)
(* Properties of the cooking history (SpecHistory)                         *)
(***************************************************************************)
PersistedHistory == readHistory(historyStore, FALSE)

OneEntryPerRecipe ==
  \A i, j \in 1..Len(PersistedHistory) :
     PersistedHistory[i].recipeId = PersistedHistory[j].recipeId => i = j

\* the first persisted entry is the entry of the call recorded in op, and no
\* persisted entry is newer
NewEntryFirst ==
  /\ Len(PersistedHistory) > 0
  /\ PersistedHistory[1] = newEntry(op.recipeId, op.cookedAt, op.rating, op.notes)
  /\ \A i \in 1..Len(PersistedHistory) :
        PersistedHistory[i].cookedAt <= PersistedHistory[1].cookedAt

\* C6 as stated: the persisted history holds at most one entry per recipeId,
\* and after an addToCookingHistory call for a recipeId already present that
\* entry carries the newest cookedAt and the given rating and is first.
C6_Original ==
  /\ OneEntryPerRecipe
  /\ (op.name = "addToCookingHistory" /\ op.wasPresent) => NewEntryFirst

\* C6 amended: the persisted history holds at most one entry per recipeId;
\* after an addToCookingHistory call whose write was not dropped, for a
\* recipeId already present, that entry carries the newest cookedAt and the
\* given rating and is first.
C6_Upsert ==
  /\ OneEntryPerRecipe
  /\ (op.name = "addToCookingHistory" /\ op.wasPresent /\ ~op.writeFails) =>
        NewEntryFirst

\* C6 witness: a second event persisted for a recipe while the history keeps
\* an entry of another recipe behind it.
C6_Witness ==
  /\ op.name = "addToCookingHistory" /\ op.wasPresent /\ ~op.writeFails
  /\ ~op.readFails
  /\ Len(PersistedHistory) = 2
  /\ op.rating # <<>>

(***************************************************************************)
(* Properties of the store as a whole (Spec)                               *)
(***************************************************************************)
Writers == {"updateUserPreferences", "updateIngredientPreference", "addToCookingHistory"}

\* C10: when the write fails during updateUserPreferences,
\* updateIngredientPreference or addToCookingHistory, the call returns
\* normally and the persisted preferences and history are what they were
\* before the call.
C10_DroppedWrite ==
  [][(op'.name \in Writers /\ op'.writeFails) =>
       /\ ~op'.raised
       /\ prefsStore' = prefsStore
       /\ historyStore' = historyStore]_vars

\* C10 witness: a call whose write was dropped while both a preferences
\* record and a history are persisted.
C10_Witness ==
  /\ op.name \in Writers
  /\ op.writeFails
  /\ prefsStore # <<>>
  /\ historyStore # <<>>

(***************************************************************************)
(* SpecRace: two callers, each making one updateUserPreferences call; the  *)
(* steps of the two calls interleave in any order.                         *)
(***************************************************************************)
RacePartials ==
  { [maxCookingTime |-> 30], [skillLevel |-> "advanced"],
    [favoriteIngredients |-> <<"basil">>],
    [maxCookingTime |-> 60, skillLevel |-> "intermediate"] }

RacePersisted ==
  { <<>>, <<spread(InitialDefaultPreferences, [maxCookingTime |-> 45])>> }

InitRace ==
  /\ prefsStore \in RacePersisted
  /\ historyStore = <<>>
  /\ defaultPreferences = [m \in Modules |-> InitialDefaultPreferences]
  /\ now = 0
  /\ input = NoInput
  /\ op = [name |-> "init", raised |-> FALSE]
  /\ lastRank = <<>>
  /\ calls = NoCalls

NextRace ==
  \/ \E c \in CallIds, m \in Modules, p \in RacePartials, rf \in BOOLEAN :
        /\ calls[c].pc = "idle"
        /\ updateUserPreferencesRead(c, m, p, rf)
  \/ \E c \in CallIds, wf \in BOOLEAN : updateUserPreferencesWrite(c, wf)

SpecRace == InitRace /\ [][NextRace]_vars

\* both calls have returned, both reads came before either write, the write
\* of a came before the write of b, neither write was dropped, and the two
\* calls set different fields
RacedUpdates(a, b) ==
  /\ a # b
  /\ \A c \in {a, b} : calls[c].pc = "done" /\ ~calls[c].writeFails
  /\ calls[a].readAfter = {} /\ calls[b].readAfter = {}
  /\ calls[a].writtenAfter = {} /\ calls[b].writtenAfter = {a}
  /\ DOMAIN calls[a].preferences \cap DOMAIN calls[b].preferences = {}

\* C11: updateUserPreferences is a non-atomic read-modify-write.  Whenever
\* two concurrent calls that set different fields interleave with both reads
\* before either write, the later write wins: the persisted record is the
\* later call's merge over what it read, and every field set by the earlier
\* call is back at the value the later call read, so the earlier change is
\* not in the final record.
C11_LostUpdate ==
  \A a, b \in CallIds :
    RacedUpdates(a, b) =>
      /\ prefsStore = <<spread(calls[b].current, calls[b].preferences)>>
      /\ \A f \in DOMAIN calls[a].preferences :
            /\ prefsStore[1][f] = calls[b].current[f]
            /\ calls[a].preferences[f] # calls[b].current[f]
                 => prefsStore[1][f] # calls[a].preferences[f]

\* C11 witness: such an interleaving has happened, the earlier call changed
\* a field away from the value that was read, and the final persisted
\* record holds the later call's change but not the earlier call's.
C11_Witness ==
  \E a, b \in CallIds :
    /\ RacedUpdates(a, b)
    /\ \E f \in DOMAIN calls[a].preferences :
          /\ calls[a].preferences[f] # calls[a].current[f]
          /\ prefsStore[1][f] # calls[a].preferences[f]
    /\ \A f \in DOMAIN calls[b].preferences :
          prefsStore[1][f] = calls[b].preferences[f]

(***************************************************************************)
(* SpecFrame: the two read-only operations among calls that change the     *)
(* persisted records and the service's in-memory defaultPreferences.       *)
(***************************************************************************)
FramePersisted ==
  { <<>>,
    <<spread(InitialDefaultPreferences,
             [favoriteIngredients |-> <<"lemon">>, dislikedIngredients |-> <<"thyme">>])>> }

FrameRecipes ==
  { <<Scenario, Rich>>, <<ExtremeLow, NoName>>, <<Zeroes, Scenario, Rich>> }

FrameCurrent == { <<"chicken">>, <<"Tomato", "Rice">> }

InitFrame ==
  /\ prefsStore \in FramePersisted
  /\ historyStore \in {<<>>, << <<[recipeId |-> "1", cookedAt |-> 0, rating |-> 5]>> >>}
  /\ defaultPreferences = [m \in Modules |-> InitialDefaultPreferences]
  /\ now = 0
  /\ input \in [availableIngredients : {<<"tomato">>},
                recipes : FrameRecipes,
                currentIngredients : FrameCurrent]
  /\ op = [name |-> "init", raised |-> FALSE]
  /\ lastRank = <<>>
  /\ calls = NoCalls

NextFrame ==
  \/ \E m \in Modules, rf \in BOOLEAN :
        /\ rankReadPreferences("a", m, input.availableIngredients, input.recipes, rf)
        /\ UNCHANGED lastRank
  \/ \E rfh \in BOOLEAN :
        /\ rankReadHistory("a", rfh)
        /\ UNCHANGED lastRank
  \/ \E m \in Modules, rf \in BOOLEAN :
        /\ suggestReadPreferences("a", m, input.currentIngredients, rf)
        /\ UNCHANGED lastRank
  \/ \E rfh \in BOOLEAN :
        /\ suggestReadHistory("a", rfh)
        /\ UNCHANGED lastRank
  \/ \E liked \in BOOLEAN : updateIngredientPreferenceRead("a", "basil", liked, FALSE)
  \/ updateIngredientPreferenceMerge("a", FALSE)
  \/ \E wf \in BOOLEAN : updateIngredientPreferenceWrite("a", wf)
  \/ addToCookingHistoryRead("a", "2", <<4>>, <<>>, now, FALSE)
  \/ \E wf \in BOOLEAN : addToCookingHistoryWrite("a", wf)

SpecFrame == InitFrame /\ [][NextFrame]_vars

ReadOnlyCalls == {"getPersonalizedRecommendations", "getSuggestedIngredients"}

\* C12: getPersonalizedRecommendations and getSuggestedIngredients only read.
\* Every step of one of these calls, up to an await or to its return, leaves
\* the persisted userPreferences and cookingHistory records, the in-memory
\* defaultPreferences of both modules and the caller's recipe and ingredient
\* sequences as they were.
C12_ReadOnly ==
  [][(\/ op'.name \in ReadOnlyCalls
      \/ \E c \in CallIds : /\ calls'[c].pc = "getCookingHistory"
                             /\ calls[c].pc # "getCookingHistory") =>
       /\ prefsStore' = prefsStore
       /\ historyStore' = historyStore
       /\ defaultPreferences' = defaultPreferences
       /\ input' = input]_vars

\* C12 witness: a ranking has returned the caller's recipes in another order
\* than they were given, with both records persisted and the service's
\* defaultPreferences changed by an earlier call.
C12_Witness ==
  /\ op.name = "getPersonalizedRecommendations"
  /\ ~op.raised
  /\ \E i \in 1..Len(op.result) :
        op.result[i] # scored(input.recipes[i], op.result[i].personalScore)
  /\ prefsStore # <<>>
  /\ historyStore # <<>>
  /\ defaultPreferences["service"] # InitialDefaultPreferences

(***************************************************************************)
(* Malformed recipes (SpecRank)                                            *)
(***************************************************************************)
\* C13: getPersonalizedRecommendations never raises for a malformed or
\* partial recipe record: whatever fields the recipes lack (id, healthScore,
\* spoonacularScore, readyInMinutes, instructions, extendedIngredients, the
\* name of an ingredient), the call returns a ranking of all of them.
C13_NeverRaises ==
  op.name = "getPersonalizedRecommendations" =>
    /\ ~op.raised
    /\ Len(op.result) = Len(op.recipes)

(***************************************************************************)
(* The scenario recipe (SpecRank): healthScore 80, spoonacularScore 60,    *)
(* readyInMinutes 20, ingredients tomato and basil, with tomato available. *)
(***************************************************************************)
\* the scores a returned ranking gives to the scenario recipe
ScenarioScores ==
  { op.result[i].personalScore :
      i \in {j \in 1..Len(op.result) :
               op.result[j] = scored(Scenario, op.result[j].personalScore)} }

\* a ranking returned for available ingredients [tomato] by a call that read
\* the default preferences and an empty history
ScenarioCall ==
  /\ RankReturned
  /\ op.availableIngredients = <<"tomato">>
  /\ PreferencesRead = InitialDefaultPreferences
  /\ HistoryRead = <<>>

\* C14 as stated: the scenario recipe is reported with personalScore 71 in
\* each of the two modules.
C14_Original ==
  ScenarioCall => \A score \in ScenarioScores : score = whole(71)

\* C14: the scenario recipe is reported with personalScore 71 (base 36,
\* availability 10, time 25) by RecommendationEngine, and with 91 by
\* RecommendationService, whose score also has the dietary term (+10, no
\* restriction is active) and the skill term (+10, a beginner and an easy
\* recipe).
C14_ScenarioScore ==
  ScenarioCall =>
    \A score \in ScenarioScores :
       score = whole(IF op.module = "engine" THEN 71 ELSE 91)

\* C14 witness: the service has ranked the scenario recipe under the default
\* preferences and an empty history.
C14_Witness ==
  /\ ScenarioCall
  /\ op.module = "service"
  /\ ScenarioScores # {}

\* a ranking returned for available ingredients [tomato] by a call that read
\* an empty history and preferences that are the default except for
\* dislikedIngredients = [basil]
DislikedBasilCall ==
  /\ RankReturned
  /\ op.availableIngredients = <<"tomato">>
  /\ PreferencesRead =
       [InitialDefaultPreferences EXCEPT !.dislikedIngredients = <<"basil">>]
  /\ HistoryRead = <<>>

\* the score of the scenario recipe under the default preferences
ScenarioDefaultScore ==
  calculateRecipeScore(op.module, Scenario, InitialDefaultPreferences, <<>>,
                       <<"tomato">>)

\* C15 as stated: with dislikedIngredients = [basil] the scenario recipe is
\* reported with personalScore 56, 15 less than under the default
\* preferences, in each of the two modules.
C15_Original ==
  DislikedBasilCall =>
    \A score \in ScenarioScores :
       /\ score = whole(56)
       /\ score = minus(ScenarioDefaultScore, whole(15))

\* C15: with dislikedIngredients = [basil] the scenario recipe is reported
\* with exactly 15 less than under the default preferences in each module:
\* 56 by RecommendationEngine and 76 by RecommendationService.
C15_DislikedBasil ==
  DislikedBasilCall =>
    \A score \in ScenarioScores :
       /\ score = whole(IF op.module = "engine" THEN 56 ELSE 76)
       /\ score = minus(ScenarioDefaultScore, whole(15))

\* C15 witness: the service has ranked the scenario recipe under these
\* preferences.
C15_Witness ==
  /\ DislikedBasilCall
  /\ op.module = "service"
  /\ ScenarioScores # {}

(***************************************************************************)
(* The chicken scenario (SpecSuggest)                                      *)
(***************************************************************************)
ChickenComplements == {"rosemary", "thyme", "lemon", "garlic"}

\* getSuggestedIngredients(["chicken"]) has returned after reading the
\* default preferences
ChickenCall ==
  /\ SuggestReturned
  /\ op.currentIngredients = <<"chicken">>
  /\ PreferencesRead = InitialDefaultPreferences

\* C16: with the default preferences getSuggestedIngredients(["chicken"])
\* returns at most 8 names, all of them among rosemary, thyme, lemon and
\* garlic, and none of them "chicken".
C16_ChickenSuggestions ==
  ChickenCall =>
    /\ Len(op.result) <= 8
    /\ \A i \in 1..Len(op.result) :
          op.result[i] \in ChickenComplements /\ op.result[i] # "chicken"

\* C16 witness: the call has returned exactly the four complements of
\* chicken.
C16_Witness ==
  /\ ChickenCall
  /\ op.result = <<"rosemary", "thyme", "lemon", "garlic">>

(***************************************************************************)
(* The terms of the score (SpecScore; the time-fit term on SpecRank).  A   *)
(* term is read off as the difference between the unclamped sum of the     *)
(* call and the unclamped sum of the same call with the input of the term  *)
(* taken away.                                                             *)
(***************************************************************************)
\* the ingredient names of a recipe as the recipe gives them
IngredientNames(recipe) ==
  IF has(recipe, "extendedIngredients")
  THEN [i \in 1..Len(recipe.extendedIngredients) |-> recipe.extendedIngredients[i].name]
  ELSE <<>>

\* either name, in lower case, is a substring of the other
SymmetricMatch(a, b) ==
  \/ includes(toLowerCase(a), toLowerCase(b))
  \/ includes(toLowerCase(b), toLowerCase(a))

\* the ingredients of the recipe that some available ingredient matches
AvailableOf(recipe) ==
  {i \in 1..Len(IngredientNames(recipe)) :
     \E j \in 1..Len(op.availableIngredients) :
        SymmetricMatch(op.availableIngredients[j], IngredientNames(recipe)[i])}

\* the availability term of the call for a recipe
AvailabilityTerm(recipe) ==
  minus(RawScoreOf(recipe),
        rawScore(op.module, recipe, PreferencesRead, HistoryRead, <<>>))

\* C17: a recipe ingredient counts as available iff some available
\* ingredient and it match symmetrically (either one, in lower case, a
\* substring of the other); the availability term is 20 times the fraction
\* of the recipe's ingredients that count as available, and 0 for a recipe
\* with no ingredients.
C17_AvailabilityTerm ==
  RankReturned =>
    \A k \in 1..Len(op.recipes) :
       LET recipe == op.recipes[k]
           n == Len(IngredientNames(recipe))
       IN IF n = 0 THEN AvailabilityTerm(recipe) = whole(0)
          ELSE AvailabilityTerm(recipe)
                 = fraction(20 * Cardinality(AvailableOf(recipe)), n)

\* C17 witness: a ranked recipe of which some but not all ingredients are
\* available, one because the available name "Tomato" is within the recipe's
\* "Tomatoes, diced" and one because the recipe's "garlic" is within the
\* available name "garlic bread".
C17_Witness ==
  /\ RankReturned
  /\ op.availableIngredients = <<"Tomato", "garlic bread">>
  /\ \E k \in 1..Len(op.recipes) :
        /\ op.recipes[k] = Rich
        /\ Cardinality(AvailableOf(Rich)) = 2
        /\ AvailabilityTerm(Rich) = fraction(40, 3)

(***************************************************************************)
(* getCookingHistory (SpecHistory).  cookedAt is the clock reading of the  *)
(* call that made the entry; the clock does not run backwards.             *)
(***************************************************************************)
\* C18: getCookingHistory returns the empty sequence when no history record
\* is persisted or the read fails; otherwise it returns the persisted
\* entries, which after any sequence of addToCookingHistory calls are in
\* non-increasing cookedAt order (most recent first).
C18_MostRecentFirst ==
  op.name = "getCookingHistory" =>
    /\ ~op.raised
    /\ (historyStore = <<>> \/ op.readFails) => op.result = <<>>
    /\ (historyStore # <<>> /\ ~op.readFails) => op.result = historyStore[1]
    /\ \A i \in 1..(Len(op.result) - 1) :
          op.result[i].cookedAt >= op.result[i + 1].cookedAt

\* C18 witness: getCookingHistory has returned two entries made at different
\* clock readings.
C18_Witness ==
  /\ op.name = "getCookingHistory"
  /\ ~op.readFails
  /\ Len(op.result) = 2
  /\ op.result[1].cookedAt > op.result[2].cookedAt

\* the favorite term and the disliked term of the call for a recipe
FavoriteTerm(recipe) ==
  minus(RawScoreOf(recipe),
        rawScore(op.module, recipe, [PreferencesRead EXCEPT !.favoriteIngredients = <<>>],
                 HistoryRead, op.availableIngredients))

DislikedTerm(recipe) ==
  minus(RawScoreOf(recipe),
        rawScore(op.module, recipe, [PreferencesRead EXCEPT !.dislikedIngredients = <<>>],
                 HistoryRead, op.availableIngredients))

\* the name, in lower case, is a substring of the ingredient in lower case
ContainedMatch(name, ingredient) ==
  includes(toLowerCase(ingredient), toLowerCase(name))

\* the number of ingredients of the recipe that contain some name of the list
MatchedContained(recipe, names) ==
  Cardinality({i \in 1..Len(IngredientNames(recipe)) :
                 \E j \in 1..Len(names) :
                    ContainedMatch(names[j], IngredientNames(recipe)[i])})

\* the number of ingredients of the recipe that some name of the list
\* matches symmetrically
MatchedSymmetric(recipe, names) ==
  Cardinality({i \in 1..Len(IngredientNames(recipe)) :
                 \E j \in 1..Len(names) :
                    SymmetricMatch(names[j], IngredientNames(recipe)[i])})

\* C19 as stated: a recipe ingredient matches a favorite or disliked name iff
\* either, in lower case, is a substring of the other.
C19_Original ==
  RankReturned =>
    \A k \in 1..Len(op.recipes) :
       /\ FavoriteTerm(op.recipes[k]) =
            whole(8 * MatchedSymmetric(op.recipes[k], PreferencesRead.favoriteIngredients))
       /\ DislikedTerm(op.recipes[k]) =
            whole(-15 * MatchedSymmetric(op.recipes[k], PreferencesRead.dislikedIngredients))

\* C19: favorite and disliked matching is one-directional: a recipe
\* ingredient R matches a favorite (or disliked) name F iff lowercase(F) is a
\* substring of lowercase(R); every matched ingredient adds 8 (favorite) or
\* takes 15 (disliked).
C19_ContainedMatch ==
  RankReturned =>
    \A k \in 1..Len(op.recipes) :
       /\ FavoriteTerm(op.recipes[k]) =
            whole(8 * MatchedContained(op.recipes[k], PreferencesRead.favoriteIngredients))
       /\ DislikedTerm(op.recipes[k]) =
            whole(-15 * MatchedContained(op.recipes[k], PreferencesRead.dislikedIngredients))

\* C19 witness: the scenario recipe ranked with favorites [Basil, tomatoes]:
\* its ingredient basil matches Basil, its ingredient tomato does not match
\* tomatoes, and the favorite term is 8.
C19_Witness ==
  /\ RankReturned
  /\ PreferencesRead.favoriteIngredients = <<"Basil", "tomatoes">>
  /\ \E k \in 1..Len(op.recipes) :
        /\ op.recipes[k] = Scenario
        /\ FavoriteTerm(Scenario) = whole(8)
        /\ MatchedSymmetric(Scenario, PreferencesRead.favoriteIngredients) = 2

\* the time-fit term as the claim gives it: from the recipe's readyInMinutes,
\* or from 60 when the recipe has none
ClaimedTimeFit(recipe, maxCookingTime) ==
  LET prepTime == IF has(recipe, "readyInMinutes") THEN recipe.readyInMinutes ELSE 60
  IN IF prepTime <= maxCookingTime
     THEN (IF prepTime <= 30 THEN 25 ELSE 15)
     ELSE -10

\* the time-fit term of the call for a recipe: all that timeFit adds
TimeFitTerm(recipe) ==
  LET added == timeFit(recipe, PreferencesRead)
  IN IF Len(added) = 2 THEN added[1] + added[2] ELSE added[1]

\* C20: the time-fit term of the score is +15 when prepTime <= maxCookingTime,
\* plus a further +10 when in addition prepTime <= 30, and -10 when
\* prepTime > maxCookingTime, where prepTime is the recipe's readyInMinutes
\* or 60 when that is absent.
C20_TimeFit ==
  RankReturned =>
    \A k \in 1..Len(op.recipes) :
       TimeFitTerm(op.recipes[k])
         = ClaimedTimeFit(op.recipes[k], PreferencesRead.maxCookingTime)

\* the same for the recipes whose readyInMinutes is not 0
C20_TimeFitNonZero ==
  RankReturned =>
    \A k \in 1..Len(op.recipes) :
       (has(op.recipes[k], "readyInMinutes") => op.recipes[k].readyInMinutes # 0)
         => TimeFitTerm(op.recipes[k])
              = ClaimedTimeFit(op.recipes[k], PreferencesRead.maxCookingTime)

(***************************************************************************)
(* SpecScore: one recipe scored by getPersonalizedRecommendations, with    *)
(* recipes, preferences and histories that make every term of the score    *)
(* take each of its values.                                                *)
(***************************************************************************)
\* 150 minutes and three ingredients: complexity 18, medium
Slow ==
  [id |-> 9, healthScore |-> 100, spoonacularScore |-> 40, readyInMinutes |-> 150,
   instructions |-> "Simmer.", vegetarian |-> TRUE, vegan |-> TRUE,
   glutenFree |-> FALSE,
   extendedIngredients |->
     <<[name |-> "Basil Pesto"], [name |-> "tomato"], [name |-> "rice"]>>]

\* no minutes and thirteen ingredients
Instant ==
  [id |-> 13, readyInMinutes |-> 0, vegetarian |-> TRUE, glutenFree |-> TRUE,
   extendedIngredients |-> [i \in 1..13 |-> [name |-> "rice"]]]

ScoreRecipes == {Scenario, Rich, ExtremeLow, Bare, Zeroes, NoId, Slow, Instant}

ScorePreferences ==
  RankPreferences \cup
  { spread(InitialDefaultPreferences, p) : p \in
      { [favoriteIngredients |-> <<"basil", "Pesto", "rice">>,
         dislikedIngredients |-> <<"tomato", "tomatoes", "Dice">>,
         dietaryRestrictions |-> <<"glutenFree", "keto">>,
         skillLevel |-> "intermediate"],
        [dietaryRestrictions |-> <<"vegan">>, skillLevel |-> "advanced",
         maxCookingTime |-> 150] } }

InitScore ==
  /\ prefsStore \in {<<>>} \cup {<<p>> : p \in ScorePreferences}
  /\ historyStore \in {<<>>} \cup {<<h>> : h \in RankHistories}
  /\ defaultPreferences = [m \in Modules |-> InitialDefaultPreferences]
  /\ now = MaxClock
  /\ input \in [availableIngredients : RankAvailable,
                recipes : {<<r>> : r \in ScoreRecipes},
                currentIngredients : {<<>>}]
  /\ op = [name |-> "init", raised |-> FALSE]
  /\ lastRank = <<>>
  /\ calls = NoCalls

SpecScore == InitScore /\ [][NextRank]_vars

\* the recipe of a returned call of SpecScore
ScoredRecipe == op.recipes[1]

\* C21: the favorite term is +8 times the number of the recipe's ingredients
\* that contain at least one favorite name, and the disliked term is -15
\* times the number of the recipe's ingredients that contain at least one
\* disliked name: an ingredient counts at most once per term, however many
\* names it contains, and a term is 0 when its set of names is empty.
C21_CountedOnce ==
  RankReturned =>
    LET names == IngredientNames(ScoredRecipe)
        holding(list) ==
          {i \in 1..Len(names) :
             \E j \in 1..Len(list) : ContainedMatch(list[j], names[i])}
        favorites == PreferencesRead.favoriteIngredients
        disliked == PreferencesRead.dislikedIngredients
    IN /\ FavoriteTerm(ScoredRecipe) = whole(8 * Cardinality(holding(favorites)))
       /\ DislikedTerm(ScoredRecipe) = whole(-15 * Cardinality(holding(disliked)))
       /\ atMost(FavoriteTerm(ScoredRecipe), whole(8 * Len(names)))
       /\ atMost(whole(-15 * Len(names)), DislikedTerm(ScoredRecipe))
       /\ favorites = <<>> => FavoriteTerm(ScoredRecipe) = whole(0)
       /\ disliked = <<>> => DislikedTerm(ScoredRecipe) = whole(0)

\* C21 witness: the recipe with the ingredients Basil Pesto, tomato and rice
\* scored with favorites [basil, Pesto, rice] and disliked
\* [tomato, tomatoes, Dice]: Basil Pesto holds two favorites and counts once,
\* so the favorite term is 16 and the disliked term is -15.
C21_Witness ==
  /\ RankReturned
  /\ ScoredRecipe = Slow
  /\ PreferencesRead.favoriteIngredients = <<"basil", "Pesto", "rice">>
  /\ FavoriteTerm(Slow) = whole(16)
  /\ DislikedTerm(Slow) = whole(-15)

ServiceReturned == RankReturned /\ op.module = "service"

\* the history term of the call for a recipe
HistoryTerm(recipe) ==
  minus(RawScoreOf(recipe),
        rawScore(op.module, recipe, PreferencesRead, <<>>, op.availableIngredients))

\* the entries of the history read by the call that are of the recipe
EntriesOf(recipe) ==
  IF has(recipe, "id")
  THEN {i \in 1..Len(HistoryRead) : HistoryRead[i].recipeId = toString(recipe.id)}
  ELSE {}

\* C22: the history term of the score is rating * 5 when the cooking history
\* holds an entry whose recipeId equals the recipe's identifier and that
\* entry has a rating, and 0 when there is no such entry or the entry has no
\* rating; entries of other recipes never contribute.
C22_HistoryTerm ==
  ServiceReturned =>
    LET rated == {i \in EntriesOf(ScoredRecipe) : has(HistoryRead[i], "rating")}
    IN /\ \A i \in rated :
             HistoryTerm(ScoredRecipe) = whole(HistoryRead[i].rating * 5)
       /\ rated = {} => HistoryTerm(ScoredRecipe) = whole(0)

\* C22 witness: the service scores recipe 2 with a history whose third entry
\* is of recipe 2 with rating 4, after entries of other recipes with other
\* ratings: the history term is 20.
C22_Witness ==
  /\ ServiceReturned
  /\ ScoredRecipe = Rich
  /\ Len(HistoryRead) = 4
  /\ HistoryRead[1].recipeId = "12" /\ HistoryRead[1].rating = 5
  /\ EntriesOf(Rich) = {3}
  /\ HistoryTerm(Rich) = whole(20)

\* the sum of the engine's terms for a recipe of a service call
CommonTerms(recipe) ==
  rawScore("engine", recipe, PreferencesRead, <<>>, op.availableIngredients)

\* the dietary-compliance term of a service call for a recipe: what the
\* service adds to the engine's terms with no history and no skill level
DietaryTerm(recipe) ==
  minus(rawScore("service", recipe, [PreferencesRead EXCEPT !.skillLevel = "none"],
                 <<>>, op.availableIngredients),
        CommonTerms(recipe))

DietaryTags == {"vegetarian", "vegan", "glutenFree"}

\* C23: the dietary-compliance term is +10 exactly when, for each of the
\* restrictions vegetarian, vegan and glutenFree that is present in
\* dietaryRestrictions, the recipe's boolean tag of that name is true (an
\* absent tag counting as not satisfied), and 0 otherwise; with no active
\* restriction every recipe receives the +10.
C23_DietaryTerm ==
  ServiceReturned =>
    LET active == {t \in DietaryTags :
                     \E j \in 1..Len(PreferencesRead.dietaryRestrictions) :
                        PreferencesRead.dietaryRestrictions[j] = t}
        satisfied(t) == has(ScoredRecipe, t) /\ ScoredRecipe[t] = TRUE
    IN /\ DietaryTerm(ScoredRecipe) \in {whole(0), whole(10)}
       /\ DietaryTerm(ScoredRecipe) = whole(10)
            <=> \A t \in active : satisfied(t)
       /\ active = {} => DietaryTerm(ScoredRecipe) = whole(10)

\* C23 witness: the service scores the scenario recipe, which has no tags,
\* for a vegetarian: the absent tag is not satisfied and the term is 0.
C23_Witness ==
  /\ ServiceReturned
  /\ ScoredRecipe = Scenario
  /\ PreferencesRead.dietaryRestrictions = <<"vegetarian">>
  /\ DietaryTerm(Scenario) = whole(0)

\* the skill-fit term of a service call for a recipe
SkillTerm(recipe) ==
  minus(RawScoreOf(recipe),
        rawScore(op.module, recipe, [PreferencesRead EXCEPT !.skillLevel = "none"],
                 HistoryRead, op.availableIngredients))

\* c = prepTime/10 + instructionTextLength/100 + ingredientCount in
\* hundredths, with the given prepTime
ClaimedComplexity(recipe, prepTime) ==
  LET c == prepTime * 10
             + (IF has(recipe, "instructions") THEN Len(recipe.instructions) ELSE 0)
             + 100 * (IF has(recipe, "extendedIngredients")
                      THEN Len(recipe.extendedIngredients) ELSE 0)
  IN IF c < 1500 THEN "easy" ELSE IF c < 3000 THEN "medium" ELSE "hard"

\* the table of the skill-fit term
ClaimedSkillTerm(skillLevel, complexity) ==
  whole
    ( CASE skillLevel = "beginner" ->
             (CASE complexity = "easy" -> 10 [] complexity = "medium" -> 0
                [] complexity = "hard" -> -10)
        [] skillLevel = "intermediate" ->
             (CASE complexity = "medium" -> 10 [] OTHER -> 5)
        [] skillLevel = "advanced" ->
             (CASE complexity = "hard" -> 15 [] OTHER -> 8) )

\* C24: the skill-fit term follows the table beginner: easy +10, medium 0,
\* hard -10; intermediate: medium +10, otherwise +5; advanced: hard +15,
\* otherwise +8, where the complexity class is easy when c < 15, medium when
\* 15 <= c < 30 and hard when c >= 30, for c = prepTime/10 +
\* instructionTextLength/100 + ingredientCount, prepTime being the recipe's
\* readyInMinutes, or 30 when that is absent.
C24_SkillTerm ==
  ServiceReturned =>
    LET prepTime == IF has(ScoredRecipe, "readyInMinutes")
                    THEN ScoredRecipe.readyInMinutes ELSE 30
    IN SkillTerm(ScoredRecipe) =
         ClaimedSkillTerm(PreferencesRead.skillLevel,
                          ClaimedComplexity(ScoredRecipe, prepTime))

\* the same with a readyInMinutes of 0 taken as absent
C24_SkillTermZeroAbsent ==
  ServiceReturned =>
    LET prepTime == IF has(ScoredRecipe, "readyInMinutes")
                       /\ ScoredRecipe.readyInMinutes # 0
                    THEN ScoredRecipe.readyInMinutes ELSE 30
    IN SkillTerm(ScoredRecipe) =
         ClaimedSkillTerm(PreferencesRead.skillLevel,
                          ClaimedComplexity(ScoredRecipe, prepTime))

\* the base-quality term of the call for a recipe: the engine's terms with
\* no ingredient given, less the time-fit term
BaseTerm(recipe) ==
  minus(rawScore("engine", recipe,
                 [PreferencesRead EXCEPT !.favoriteIngredients = <<>>,
                                         !.dislikedIngredients = <<>>],
                 <<>>, <<>>),
        whole(TimeFitTerm(recipe)))

\* an index of the recipe is absent or has a value in 0..100
IndexInRange(recipe, f) == has(recipe, f) => recipe[f] \in 0..100

\* C25: the base-quality term equals health*0.3 + popularity*0.2 for every
\* recipe whose health and popularity indices are present with a value in
\* 0..100 (the value 0 included), and the default 50 is substituted for an
\* index only when that index is absent from the record.
C25_BaseTerm ==
  (/\ RankReturned
   /\ IndexInRange(ScoredRecipe, "healthScore")
   /\ IndexInRange(ScoredRecipe, "spoonacularScore"))
    => LET health == IF has(ScoredRecipe, "healthScore")
                     THEN ScoredRecipe.healthScore ELSE 50
           popularity == IF has(ScoredRecipe, "spoonacularScore")
                         THEN ScoredRecipe.spoonacularScore ELSE 50
       IN BaseTerm(ScoredRecipe) = fraction(health * 3 + popularity * 2, 10)

\* the same with an index of 0 taken as absent
C25_BaseTermZeroAbsent ==
  RankReturned =>
    LET health == orDefault(ScoredRecipe, "healthScore", 50)
        popularity == orDefault(ScoredRecipe, "spoonacularScore", 50)
    IN BaseTerm(ScoredRecipe) = fraction(health * 3 + popularity * 2, 10)

(***************************************************************************)
(* The order of the suggestions (SpecSuggest)                              *)
(***************************************************************************)
\* the concatenation of a sequence of sequences
RECURSIVE Flatten(_)
Flatten(seqs) ==
  IF Len(seqs) = 0 THEN <<>> ELSE Head(seqs) \o Flatten(Tail(seqs))

\* the key, in lower case, is found in the current ingredient
KeyFound(key, current) == includes(toLowerCase(current), key)

\* the complements in the definition order of the table: key by key, the
\* values of every key found in some current ingredient
TableOrderComplements(m, currentIngredients) ==
  LET table == complementaryMap(m)
  IN Flatten([k \in 1..Len(table) |->
                IF \E i \in 1..Len(currentIngredients) :
                      KeyFound(table[k].key, currentIngredients[i])
                THEN table[k].values ELSE <<>>])

\* the complements in the order of the current ingredients: ingredient by
\* ingredient, the values of every key found in it, in the key order of the
\* table
IngredientOrderComplements(m, currentIngredients) ==
  LET table == complementaryMap(m)
  IN Flatten([i \in 1..Len(currentIngredients) |->
                Flatten([k \in 1..Len(table) |->
                           IF KeyFound(table[k].key, currentIngredients[i])
                           THEN table[k].values ELSE <<>>])])

\* the first 8 of the candidates, each name at its first place only, that are
\* found neither in a current ingredient nor in a disliked name
FirstSurvivors(candidates) ==
  LET first(i) == \A j \in 1..(i - 1) : candidates[j] # candidates[i]
      survives(i) ==
        /\ \A j \in 1..Len(op.currentIngredients) :
              ~includes(toLowerCase(op.currentIngredients[j]), toLowerCase(candidates[i]))
        /\ \A j \in 1..Len(PreferencesRead.dislikedIngredients) :
              ~includes(toLowerCase(PreferencesRead.dislikedIngredients[j]),
                        toLowerCase(candidates[i]))
      keepIndex(i) == first(i) /\ survives(i)
      kept == SelectSeq([i \in 1..Len(candidates) |-> i], keepIndex)
  IN [n \in 1..(IF Len(kept) < 8 THEN Len(kept) ELSE 8) |-> candidates[kept[n]]]

\* C26 as stated: getSuggestedIngredients returns the first 8 surviving
\* candidates, the favorites first in stored order, then the complements in
\* the definition order of the table (key order, then value order within a
\* key), independent of the order of currentIngredients, each name once, the
\* filter applied before the truncation.
C26_Original ==
  SuggestReturned =>
    op.result =
      FirstSurvivors(PreferencesRead.favoriteIngredients
                       \o TableOrderComplements(op.module, op.currentIngredients))

\* C26: getSuggestedIngredients returns the first 8 surviving candidates, the
\* favorites first in stored order, then the complements in the order of
\* currentIngredients: for each current ingredient in turn, the values of
\* the table keys found in it, in key order and value order within a key;
\* each name appears once, at its first place, and the filter is applied
\* before the truncation.
C26_SuggestionOrder ==
  SuggestReturned =>
    op.result =
      FirstSurvivors(PreferencesRead.favoriteIngredients
                       \o IngredientOrderComplements(op.module, op.currentIngredients))

\* C26 witness: the engine called with [beef, Chicken Tomato rice] and five
\* favorites of which one is disliked: four favorites, then the complements
\* of beef before those of tomato, although tomato is the first key of the
\* table; eight names are returned and rosemary is cut off.
C26_Witness ==
  /\ SuggestReturned
  /\ op.module = "engine"
  /\ op.currentIngredients = <<"beef", "Chicken Tomato rice">>
  /\ PreferencesRead.favoriteIngredients = <<"garlic", "lemon", "feta", "kale", "corn">>
  /\ op.result = <<"garlic", "lemon", "kale", "corn", "onion", "mushrooms",
                   "mozzarella", "olive oil">>

(***************************************************************************)
(* SpecHistoryRace: two callers, each making one addToCookingHistory call, *)
(* on a history persisted by earlier calls; the steps of the two calls     *)
(* interleave in any order.                                                *)
(***************************************************************************)
RaceRecipeIds == {"1", "2"}
RaceRatings == {<<>>, <<5>>}

\* histories that earlier addToCookingHistory calls have persisted
RaceHistories ==
  LET first == [recipeId |-> "1", cookedAt |-> 0, rating |-> 3]
      second == [recipeId |-> "2", cookedAt |-> 0]
  IN { <<first>>, <<first, second>>, <<second, first>> }

InitHistoryRace ==
  /\ prefsStore = <<>>
  /\ historyStore \in {<<>>} \cup {<<h>> : h \in RaceHistories}
  /\ defaultPreferences = [m \in Modules |-> InitialDefaultPreferences]
  /\ now = 0
  /\ input = NoInput
  /\ op = [name |-> "init", raised |-> FALSE]
  /\ lastRank = <<>>
  /\ calls = NoCalls

NextHistoryRace ==
  \/ \E c \in CallIds, id \in RaceRecipeIds, r \in RaceRatings, t \in 0..MaxClock,
        rf \in BOOLEAN :
        /\ calls[c].pc = "idle"
        /\ addToCookingHistoryRead(c, id, r, <<>>, t, rf)
  \/ \E c \in CallIds, wf \in BOOLEAN : addToCookingHistoryWrite(c, wf)

SpecHistoryRace == InitHistoryRace /\ [][NextHistoryRace]_vars

\* C27: in every state reachable by any interleaving of concurrent
\* addToCookingHistory calls (each a read of the history followed later by a
\* write), the persisted cooking history holds at most one entry per
\* recipeId.
C27_OneEntryPerRecipeRaced ==
  Cardinality({PersistedHistory[i].recipeId : i \in 1..Len(PersistedHistory)})
    = Len(PersistedHistory)

\* C27 witness: two calls for the same recipe have both read a history that
\* held an entry of that recipe and an entry of another recipe before either
\* wrote, both writes were persisted, and the persisted history holds the
\* two recipes once each.
C27_Witness ==
  \E a, b \in CallIds :
    /\ a # b
    /\ \A c \in {a, b} :
          /\ calls[c].pc = "done"
          /\ calls[c].name = "addToCookingHistory"
          /\ ~calls[c].writeFails
    /\ calls[a].readAfter = {} /\ calls[b].readAfter = {}
    /\ calls[a].writtenAfter = {} /\ calls[b].writtenAfter = {a}
    /\ calls[a].recipeId = calls[b].recipeId
    /\ \A c \in {a, b} :
          /\ Len(calls[c].history) = 2
          /\ hasEntryOf(calls[c].history, calls[c].recipeId)
    /\ historyStore = <<calls[b].updatedHistory>>
    /\ Len(PersistedHistory) = 2

(***************************************************************************)
(* Store updates under read failures (Spec)                                *)
(***************************************************************************)
\* the entries of a persisted history that are not of the recipe
EntriesOfOthers(store, recipeId) ==
  LET other(h) == h.recipeId # recipeId
  IN SelectSeq(readHistory(store, FALSE), other)

\* the step of an addToCookingHistory call keeps the persisted entries of the
\* other recipes, in their order
KeepsOtherEntries ==
  op'.name = "addToCookingHistory" =>
    EntriesOfOthers(historyStore', op'.recipeId)
      = EntriesOfOthers(historyStore, op'.recipeId)

\* the step of an updateUserPreferences call keeps every persisted field that
\* the partial record does not name
KeepsOtherFields ==
  (op'.name = "updateUserPreferences" /\ prefsStore # <<>>) =>
    /\ prefsStore' # <<>>
    /\ \A f \in DOMAIN prefsStore[1] \ DOMAIN op'.preferences :
          f \in DOMAIN prefsStore'[1] /\ prefsStore'[1][f] = prefsStore[1][f]

\* C28: a transient storage read failure during a store update does not
\* destroy previously persisted data: after addToCookingHistory(r) every
\* persisted history entry with recipeId different from r is still present
\* in the same relative order, and after updateUserPreferences(partial)
\* every persisted field not named in partial still has its previous value,
\* for every pattern of read failures.
C28_ReadFailureKeepsData ==
  [][KeepsOtherEntries /\ KeepsOtherFields]_vars

\* the same for the calls whose read did not fail
C28_KeepsDataWhenRead ==
  [][~op'.readFails => (KeepsOtherEntries /\ KeepsOtherFields)]_vars

(***************************************************************************)
(* SpecSnapshot: getPersonalizedRecommendations in flight among calls that *)
(* change the preferences and the history.  The call is suspended at the   *)
(* getItem of getUserPreferences and, in the service, at the getItem of    *)
(* getCookingHistory; recipes.map and the sort then run without a further  *)
(* await.  A preferences value parsed from the store is the call's own     *)
(* copy; the defaultPreferences object is held by reference.               *)
(***************************************************************************)
SnapshotRecipes == { <<Zeroes, Rich, Scenario>> }

SnapshotPartials == { [maxCookingTime |-> 15] }

InitSnapshot ==
  /\ prefsStore \in FramePersisted
  /\ historyStore = << <<[recipeId |-> "1", cookedAt |-> 0, rating |-> 5]>> >>
  /\ defaultPreferences = [m \in Modules |-> InitialDefaultPreferences]
  /\ now = 0
  /\ input \in [availableIngredients : {<<"tomato">>},
                recipes : SnapshotRecipes,
                currentIngredients : {<<>>}]
  /\ op = [name |-> "init", raised |-> FALSE]
  /\ lastRank = <<>>
  /\ calls = NoCalls

\* the call of caller a has not returned yet
RankPending == calls["a"].pc # "done"

\* caller a makes one getPersonalizedRecommendations call; caller b makes
\* calls that change the preferences and the history, one after the other,
\* and starts none once the call of a has returned
NextSnapshot ==
  \/ \E m \in Modules :
        /\ calls["a"].pc = "idle"
        /\ rankReadPreferences("a", m, input.availableIngredients, input.recipes, FALSE)
        /\ UNCHANGED lastRank
  \/ \E hrf \in BOOLEAN :
        /\ rankReadHistory("a", hrf)
        /\ UNCHANGED lastRank
  \/ \E p \in SnapshotPartials :
        /\ RankPending
        /\ updateUserPreferencesRead("b", "service", p, FALSE)
  \/ updateUserPreferencesWrite("b", FALSE)
  \/ \E liked \in BOOLEAN :
        /\ RankPending
        /\ updateIngredientPreferenceRead("b", "basil", liked, FALSE)
  \/ updateIngredientPreferenceMerge("b", FALSE)
  \/ \E wf \in BOOLEAN : updateIngredientPreferenceWrite("b", wf)
  \/ /\ RankPending
     /\ addToCookingHistoryRead("b", "2", <<4>>, <<>>, now, FALSE)
  \/ addToCookingHistoryWrite("b", FALSE)

SpecSnapshot == InitSnapshot /\ [][NextSnapshot]_vars

\* a getPersonalizedRecommendations call of SpecSnapshot has returned
SnapshotReturned == op.name = "getPersonalizedRecommendations" /\ ~op.raised

\* C29: within one getPersonalizedRecommendations call every recipe is
\* scored against the same preferences and history: for any interleaving with
\* concurrent updateUserPreferences, updateIngredientPreference or
\* addToCookingHistory calls, the returned scores are the scores under one
\* single preferences value and one single history value, never a mix of an
\* old and a new value.
C29_OneSnapshot ==
  SnapshotReturned =>
    \E preferences \in {op.preferencesRead, op.preferencesHeld} :
       op.result = rankedRecipes(op.module, op.recipes, preferences, op.history,
                                 op.availableIngredients)

\* C29 witness: a service call has returned three recipes; while it was
\* suspended the persisted preferences and the persisted history were
\* changed, and the scores under the newly persisted preferences differ from
\* the returned ones.
C29_Witness ==
  /\ SnapshotReturned
  /\ op.module = "service"
  /\ Len(op.result) = 3
  /\ calls["a"].pc = "done"
  /\ calls["a"].preferencesChanged
  /\ calls["a"].historyChanged
  /\ op.result # rankedRecipes(op.module, op.recipes,
                               readPreferences(op.module, prefsStore,
                                               defaultPreferences, FALSE),
                               op.history, op.availableIngredients)

\* the names added to a list of ingredient names
AddedNames == {"basil", "Tomato", "rice", "garlic bread", "e", ""}

\* the score of the recipe of the call with other preferences and other
\* available ingredients
ScoreWith(preferences, availableIngredients) ==
  calculateRecipeScore(op.module, ScoredRecipe, preferences, HistoryRead,
                       availableIngredients)

\* C30: the score is monotone in its ingredient inputs: for every recipe,
\* preferences and history, adding a name to the available ingredients never
\* lowers the recipe's score, adding a name to favoriteIngredients never
\* lowers it, and adding a name to dislikedIngredients never raises it.
C30_Monotone ==
  RankReturned =>
    LET score == op.result[1].personalScore
        favorites == PreferencesRead.favoriteIngredients
        disliked == PreferencesRead.dislikedIngredients
    IN \A n \in AddedNames :
          /\ atMost(score, ScoreWith(PreferencesRead, Append(op.availableIngredients, n)))
          /\ atMost(score, ScoreWith(PreferencesRead, <<n>> \o op.availableIngredients))
          /\ atMost(score,
                    ScoreWith([PreferencesRead EXCEPT
                                 !.favoriteIngredients = Append(favorites, n)],
                              op.availableIngredients))
          /\ atMost(ScoreWith([PreferencesRead EXCEPT
                                 !.dislikedIngredients = Append(disliked, n)],
                              op.availableIngredients),
                    score)

\* C30 witness: the scenario recipe scored 71 by the engine with available
\* [tomato] and default preferences; basil added to the available
\* ingredients gives 81, added to the favorites 79, added to the disliked 56.
C30_Witness ==
  /\ RankReturned
  /\ op.module = "engine"
  /\ ScoredRecipe = Scenario
  /\ op.result[1].personalScore = whole(71)
  /\ ScoreWith(PreferencesRead, Append(op.availableIngredients, "basil"))
       = whole(81)
  /\ ScoreWith([PreferencesRead EXCEPT !.favoriteIngredients = <<"basil">>],
               op.availableIngredients) = whole(79)
  /\ ScoreWith([PreferencesRead EXCEPT !.dislikedIngredients = <<"basil">>],
               op.availableIngredients) = whole(56)

====
